---- MODULE Spec2Model ----
(***************************************************************************)
(* A model of the HEX analytics dashboard (goldk3y/oa): the Flush          *)
(* Transactions component (CSV fetch, row parsing, aggregation, day        *)
(* buckets), the AA Lobby component and the Stakes page.                   *)
(*                                                                         *)
(* Representation of JavaScript values:                                    *)
(*   - a string is a TLA+ string; the string conversions the code applies  *)
(*     (trim, toLowerCase, replace, parseFloat, new Date) are tables over  *)
(*     the strings that occur in the modelled inputs;                      *)
(*   - a number that may be NaN is a record [nan, n];                      *)
(*   - a Date is its time value (getTime()), a number that may be NaN,     *)
(*     counted in hours since 2024-01-01T00:00Z;                           *)
(*   - the ISO date string toISOString().split('T')[0] of a valid Date is  *)
(*     represented by its day number: the lexicographic order of ISO date  *)
(*     strings (four-digit years) is the order of the day numbers;         *)
(*   - a CSV line is the sequence of its comma-separated columns (what     *)
(*     split(',') returns, never empty); a CSV text is the sequence of its *)
(*     lines (what split('\n') returns, never empty);                      *)
(*   - a JavaScript object used as a map is a function on its keys;        *)
(*   - the numbers of the lobby's limit and skip are counted in tenths     *)
(*     (Tenths(10) is the number 10), so that a fractional value typed     *)
(*     into the limit input is a number of the model;                      *)
(*   - the text of the lobby's address input is the sequence of its        *)
(*     comma-separated entries (what split(',') returns); the empty text   *)
(*     is the one empty entry;                                             *)
(*   - the Unix timestamps of the stakes page (seconds in the source) are  *)
(*     counted in hours, so that the year 2050 is a number of the model;   *)
(*     the numeric strings of a stake record are their values, a timestamp *)
(*     string being compared through its decimal digits where the code     *)
(*     compares it as a string;                                            *)
(*   - the wei amounts of the lobby are counted in units of 10^15 wei.     *)
(***************************************************************************)
EXTENDS Integers, Sequences, FiniteSets, TLC

VARIABLES
    \* ---- FlushTransactions component state (useState) ----
    summary, dailyTotals, isInitialLoading, sortBy, sortDirection,
    transactionType, isDropdownOpen,
    \* ---- FlushTransactions: fetches in flight and their bookkeeping ----
    files, mounted, pending, nextId, settled,
    \* ---- one run of the .then(csv => ...) callback, row by row ----
    csv, pType, lineIdx, transactionSummary, dailyAmounts, pPhase,
    \* ---- XfLobbyEnters component ----
    lobbyLimit, lobbySkip, memberAddresses, lobbyWarned, lobbyQuery,
    lobbyData, lobbyCrashed,
    \* ---- StakesPage: query lifecycle and table sort ----
    stakesQuery, stakesData, stakesSortField, stakesSortDirection,
    \* ---- StakesPage: page size and the client-side filters ----
    stakesLimit, stakesSkip, searchAddress, startDateRange, endDateRange,
    statusFilter

flushVars == <<summary, dailyTotals, isInitialLoading, sortBy, sortDirection,
               transactionType, isDropdownOpen, files, mounted, pending,
               nextId, settled>>
pipeVars == <<csv, pType, lineIdx, transactionSummary, dailyAmounts, pPhase>>
lobbyVars == <<lobbyLimit, lobbySkip, memberAddresses, lobbyWarned, lobbyQuery,
               lobbyData, lobbyCrashed>>
stakesControls == <<stakesLimit, stakesSkip, searchAddress, startDateRange,
                    endDateRange, statusFilter>>
stakesVars == <<stakesQuery, stakesData, stakesSortField, stakesSortDirection,
                stakesControls>>
vars == <<flushVars, pipeVars, lobbyVars, stakesVars>>

-----------------------------------------------------------------------------
(* Bounds of the model *)

\* data lines of a CSV text after its header line
MaxLines == 3
\* fetches one behaviour of the flush component issues
MaxFetches == 3
\* rows of a fetched lobby page
MaxRows == 2
\* rows of a fetched stakes page
MaxStakes == 2
\* largest skip the lobby pagination is followed to
MaxSkip == 60

-----------------------------------------------------------------------------
(* JavaScript numbers and the string conversions the code uses *)

NaN == [nan |-> TRUE, n |-> 0]
Num(x) == [nan |-> FALSE, n |-> x]

\* the address constant as written in the source, before .toLowerCase()
TargetMixed == "0xDEC9f2793e3c17cd26eeFb21C4762fA5128E0399"

\* String.prototype.toLowerCase
ToLowerCase(s) ==
    CASE s = TargetMixed -> "0xdec9f2793e3c17cd26eefb21c4762fa5128e0399"
      [] s = "0xAAA" -> "0xaaa"
      [] s = "0xBBB" -> "0xbbb"
      [] s = "0xDEC9F2" -> "0xdec9f2"
      [] s = "0X22222222222222222222222222222222222222Ab"
            -> "0x22222222222222222222222222222222222222ab"
      [] s = " 0xDEC9f2793e3c17cd26eeFb21C4762fA5128E0399 "
            -> " 0xdec9f2793e3c17cd26eefb21c4762fa5128e0399 "
      [] OTHER -> s

TARGET_ADDRESS == ToLowerCase(TargetMixed)

\* String.prototype.trim
Trim(s) ==
    CASE s = "  " -> ""
      [] s = "\r" -> ""
      [] s = " 0xDEC9f2793e3c17cd26eeFb21C4762fA5128E0399 " -> TargetMixed
      [] s = " 0xdec9f2793e3c17cd26eefb21c4762fa5128e0399 "
            -> "0xdec9f2793e3c17cd26eefb21c4762fa5128e0399"
      [] s = " 0x33333333333333333333333333333333333333 "
            -> "0x33333333333333333333333333333333333333"
      [] OTHER -> s

\* String.prototype.startsWith('0x')
StartsWith0x(s) ==
    s \in {TargetMixed, "0xdec9f2793e3c17cd26eefb21c4762fa5128e0399",
           "0x1111111111111111111111111111111111111111",
           "0x22222222222222222222222222222222222222ab",
           "0x33333333333333333333333333333333333333", "0x123",
           "0xAAA", "0xaaa", "0xBBB", "0xbbb", "0xh1", "0xh2", "0xh3",
           "0xh4", "0xh5", "0xh6", "0xh7"}

\* a number of the lobby controls, in tenths
Tenths(x) == 10 * x
IsInteger(x) == x % 10 = 0

\* s.replace(/"/g, '')
StripQuotes(s) ==
    CASE s = "\"5\"" -> "5"
      [] s = "\"0xaaa\"" -> "0xaaa"
      [] s = "\"0xh2\"" -> "0xh2"
      [] OTHER -> s

\* s.replace(/^\d+\|/, '') applied to a line: only its first column can change
StripPrefix(s) ==
    CASE s = "7|0xh1" -> "0xh1"
      [] s = "12|" -> ""
      [] OTHER -> s

\* parseFloat
ParseFloat(s) ==
    CASE s = "0" -> Num(0)
      [] s = "3" -> Num(3)
      [] s = "5" -> Num(5)
      [] s = "10" -> Num(10)
      [] s = "15" -> Num(15)
      [] s = "20" -> Num(20)
      [] s = "-5" -> Num(-5)
      [] OTHER -> NaN

\* new Date(string).getTime(), in hours since 2024-01-01T00:00Z
NewDate(s) ==
    CASE s = "2024-01-01T08:00Z" -> Num(8)
      [] s = "2024-01-01T20:00Z" -> Num(20)
      [] s = "2024-01-02T09:00Z" -> Num(33)
      [] s = "2024-01-03T01:00Z" -> Num(49)
      [] OTHER -> NaN

\* parseInt of the text of a number input
ParseInt(s) ==
    CASE s = "5" -> Num(5)
      [] s = "25" -> Num(25)
      [] s = "2000" -> Num(2000)
      [] OTHER -> NaN

\* new Date().toISOString().split('T')[0]: the day the page is opened
Today == "2024-06-01"

\* Math.floor(new Date(s).getTime() / 1000) of the value of a date input, in
\* hours since 1970-01-01T00:00Z; the empty value is an Invalid Date
UnixTime(s) ==
    CASE s = "2019-12-03" -> Num(437592)
      [] s = "2021-01-01" -> Num(447072)
      [] s = Today -> Num(477000)
      [] s = "2050-01-01" -> Num(701280)
      [] OTHER -> NaN

\* a < b and a > b of two numbers: false when either is NaN
Less(a, b) == ~a.nan /\ ~b.nan /\ a.n < b.n
Greater(a, b) == Less(b, a)

\* String.prototype.includes
Includes(s, t) ==
    \E i \in 1..(Len(s) - Len(t) + 1) : SubSeq(s, i, i + Len(t) - 1) = t

\* a || b for numbers: a when a is truthy (neither NaN nor 0), else b
OrElse(a, b) == IF a.nan \/ a.n = 0 THEN b ELSE a

\* Math.min / Math.max of two time values
MathMin(a, b) == IF a.nan \/ b.nan THEN NaN ELSE IF a.n <= b.n THEN a ELSE b
MathMax(a, b) == IF a.nan \/ b.nan THEN NaN ELSE IF a.n >= b.n THEN a ELSE b

\* faulty variant: the bucket key keeps the time of day
DateKey_WithTime(t) == t.n

\* timestamp.toISOString().split('T')[0] of a valid Date, as a day number
DateKey(t) == t.n \div 24

\* JavaScript objects used as maps
EmptyMap == [k \in {} |-> 0]
Put(m, k, v) == [x \in (DOMAIN m) \cup {k} |-> IF x = k THEN v ELSE m[x]]

\* columns[i] of a zero-indexed JavaScript array
Col(columns, i) == columns[i + 1]

-----------------------------------------------------------------------------
(* The .then(csv => ...) callback of the flush effect: parsing and aggregation *)

Types == {"send", "receive", "internal"}
Undefined == "undefined"

\* the data of a useQuery result: undefined, or the rows of the fetched page
NoData == [defined |-> FALSE, rows |-> <<>>]
Data(rows) == [defined |-> TRUE, rows |-> rows]

\* const lines = csv.split('\n').slice(1)
Lines(text) == Tail(text)

\* !line.trim()
IsBlank(line) == Len(line) = 1 /\ Trim(line[1]) = ""

\* line.replace(/^\d+\|/, '').split(',')
CleanColumns(line) == [line EXCEPT ![1] = StripPrefix(@)]

\* faulty variant: the send/receive check is off by one column
MinColumns_OffByOne(type) == IF type = "internal" THEN 11 ELSE 14

\* if (columns.length < 11) return;  /  if (columns.length < 15) return;
MinColumns(type) == IF type = "internal" THEN 11 ELSE 15

\* (dailyAmounts[dateKey] || 0)
GetOrZero(m, k) == IF k \in DOMAIN m THEN m[k] ELSE 0

\* parseFloat(columns[7]...) || parseFloat(columns[8]...) || 0
SendAmount(columns) ==
    OrElse(OrElse(ParseFloat(StripQuotes(Col(columns, 7))),
                  ParseFloat(StripQuotes(Col(columns, 8)))),
           Num(0)).n

\* parseFloat(columns[10]...) || 0
InternalAmount(columns) ==
    OrElse(ParseFloat(StripQuotes(Col(columns, 10))), Num(0)).n

\* The accumulators of one run: transactionSummary, dailyAmounts, and whether
\* an exception has left the callback.
Acc(s, d, t) == [summary |-> s, daily |-> d, thrown |-> t]

\* faulty variant: a row replaces the entry of its address instead of adding to it
processTransaction_Overwrite(from, to, amount, timestamp, acc) ==
    LET addressKey == IF from = TARGET_ADDRESS THEN to ELSE from
        s2 == Put(acc.summary, addressKey,
                  [to |-> addressKey, hash |-> Undefined, amount |-> amount,
                   count |-> 1, firstDate |-> timestamp,
                   lastDate |-> timestamp])
    IN  IF timestamp.nan
        THEN Acc(s2, acc.daily, TRUE)
        ELSE Acc(s2,
                 Put(acc.daily, DateKey(timestamp),
                     GetOrZero(acc.daily, DateKey(timestamp)) + amount),
                 FALSE)

\* function processTransaction(from, to, amount, timestamp, ...): the summary
\* entry is updated before toISOString() can throw on an Invalid Date.
processTransaction(from, to, amount, timestamp, acc) ==
    LET addressKey == IF from = TARGET_ADDRESS THEN to ELSE from
        old == IF addressKey \in DOMAIN acc.summary
               THEN acc.summary[addressKey]
               ELSE [to |-> addressKey, hash |-> Undefined, amount |-> 0,
                     count |-> 0, firstDate |-> timestamp,
                     lastDate |-> timestamp]
        new == [old EXCEPT !.amount = @ + amount,
                           !.count = @ + 1,
                           !.firstDate = MathMin(@, timestamp),
                           !.lastDate = MathMax(@, timestamp)]
        s2 == Put(acc.summary, addressKey, new)
    IN  IF timestamp.nan
        THEN Acc(s2, acc.daily, TRUE)
        ELSE Acc(s2,
                 Put(acc.daily, DateKey(timestamp),
                     GetOrZero(acc.daily, DateKey(timestamp)) + amount),
                 FALSE)

\* the internal branch of the forEach body
ProcessInternal(columns, acc) ==
    LET hash == StripQuotes(Col(columns, 0))
        amount == InternalAmount(columns)
        timestamp == NewDate(StripQuotes(Col(columns, 3)))
        s2 == Put(acc.summary, hash,
                  [to |-> "", hash |-> hash, amount |-> amount, count |-> 1,
                   firstDate |-> timestamp, lastDate |-> timestamp])
    IN  IF timestamp.nan
        THEN Acc(s2, acc.daily, TRUE)
        ELSE Acc(s2,
                 Put(acc.daily, DateKey(timestamp),
                     GetOrZero(acc.daily, DateKey(timestamp)) + amount),
                 FALSE)

\* faulty variant: the direction of the selected type is not checked
ProcessTransfer_AnyDirection(type, columns, acc) ==
    LET from == ToLowerCase(StripQuotes(Col(columns, 4)))
        to == ToLowerCase(StripQuotes(Col(columns, 5)))
        amount == SendAmount(columns)
        timestamp == NewDate(StripQuotes(Col(columns, 3)))
    IN  IF (from = TARGET_ADDRESS \/ to = TARGET_ADDRESS) /\ amount > 0
        THEN processTransaction(from, to, amount, timestamp, acc)
        ELSE acc

\* the send/receive branch of the forEach body
ProcessTransfer(type, columns, acc) ==
    LET from == ToLowerCase(StripQuotes(Col(columns, 4)))
        to == ToLowerCase(StripQuotes(Col(columns, 5)))
        amount == SendAmount(columns)
        timestamp == NewDate(StripQuotes(Col(columns, 3)))
    IN  IF type = "send" /\ from = TARGET_ADDRESS /\ amount > 0
        THEN processTransaction(from, to, amount, timestamp, acc)
        ELSE IF type = "receive" /\ to = TARGET_ADDRESS /\ amount > 0
        THEN processTransaction(from, to, amount, timestamp, acc)
        ELSE acc

\* lines.forEach((line) => { ... }) body, for one line
ProcessLine(type, line, acc) ==
    IF IsBlank(line) THEN acc
    ELSE LET columns == CleanColumns(line)
         IN  IF Len(columns) < MinColumns(type) THEN acc
             ELSE IF type = "internal" THEN ProcessInternal(columns, acc)
             ELSE ProcessTransfer(type, columns, acc)

\* Object.keys(dailyAmounts).sort()
RECURSIVE SortedKeys(_)
SortedKeys(S) ==
    IF S = {} THEN <<>>
    ELSE LET m == CHOOSE x \in S : \A y \in S : x <= y
         IN  <<m>> \o SortedKeys(S \ {m})

\* let cumulative = 0; sortedDates.map(date => { cumulative += ...; ... })
RECURSIVE RunningTotal(_, _, _)
RunningTotal(dates, daily, i) ==
    IF i = 0 THEN 0 ELSE RunningTotal(dates, daily, i - 1) + daily[dates[i]]

\* faulty variant: the running total is not carried from one day to the next
DailyTotalsOf_NoCarry(daily) ==
    LET sortedDates == SortedKeys(DOMAIN daily)
    IN  [i \in 1..Len(sortedDates) |->
            [date |-> sortedDates[i],
             amount |-> daily[sortedDates[i]],
             cumulative |-> daily[sortedDates[i]]]]

DailyTotalsOf(daily) ==
    LET sortedDates == SortedKeys(DOMAIN daily)
    IN  [i \in 1..Len(sortedDates) |->
            [date |-> sortedDates[i],
             amount |-> daily[sortedDates[i]],
             cumulative |-> RunningTotal(sortedDates, daily, i)]]

\* the whole forEach: an exception leaves the loop at once
RECURSIVE ForEachLine(_, _, _, _)
ForEachLine(type, lines, i, acc) ==
    IF i > Len(lines) \/ acc.thrown THEN acc
    ELSE ForEachLine(type, lines, i + 1, ProcessLine(type, lines[i], acc))

\* one whole run of the callback on a CSV text: what it passes to setSummary
\* and setDailyTotals, or that it threw before reaching them
RunPipeline(type, text) ==
    LET acc == ForEachLine(type, Lines(text), 1, Acc(EmptyMap, EmptyMap, FALSE))
    IN  [thrown |-> acc.thrown,
         summary |-> acc.summary,
         dailyTotals |-> IF acc.thrown THEN <<>> ELSE DailyTotalsOf(acc.daily)]

-----------------------------------------------------------------------------
(* CSV inputs of the model *)

T1 == "2024-01-01T08:00Z"
T2 == "2024-01-01T20:00Z"
T3 == "2024-01-02T09:00Z"
T4 == "2024-01-03T01:00Z"

\* a line of n columns: hash, timestamp, from, to, the two amount candidates
\* and the internal amount at their column indices, "" elsewhere
Row(n, c0, c3, c4, c5, c7, c8, c10) ==
    [i \in 1..n |->
        CASE i = 1 -> c0
          [] i = 4 -> c3
          [] i = 5 -> c4
          [] i = 6 -> c5
          [] i = 8 -> c7
          [] i = 9 -> c8
          [] i = 11 -> c10
          [] OTHER -> ""]

HeaderLine ==
    Row(15, "Transaction Hash", "DateTime (UTC)", "From", "To",
        "Value_IN(ETH)", "Value_OUT(ETH)", "Status")
L1 == Row(15, "7|0xh1", T1, TargetMixed, "0xaaa", "10", "20", "10")
L2 == Row(15, "0xh1", T2, TARGET_ADDRESS, "0xAAA", "", "15", "3")
L3 == Row(15, "\"0xh2\"", T3, "\"0xaaa\"", TargetMixed, "\"5\"", "", "-5")
L4 == Row(15, "0xh3", "not-a-date", TargetMixed, "0xbbb", "10", "", "10")
L5 == Row(14, "0xh4", T4, TargetMixed, "0xbbb", "3", "", "abc")
L6 == Row(10, "12|", T1, TargetMixed, "0xbbb", "10", "", "")
L7 == <<"  ">>
L8 == Row(15, "0xh5", T1, TargetMixed, "0xbbb", "-5", "15", "0")
L9 == Row(15, "0xh6", T3, "0xBBB", TARGET_ADDRESS, "0", "3", "5")
L10 == Row(15, "0xh7", T4, TARGET_ADDRESS, "0xBBB", "3", "", "20")

DataLines == {L1, L2, L3, L4, L5, L6, L7, L8, L9, L10}
Headers == {HeaderLine, L1}

BoundedSeq(S, n) == UNION {[1..k -> S] : k \in 0..n}
CsvTexts == {<<h>> \o body : h \in Headers, body \in BoundedSeq(DataLines, MaxLines)}

\* the two static files the flush component can fetch
FlushFiles ==
    [all : {<<HeaderLine, L1, L2, L3, L10>>, <<HeaderLine, L9, L4>>},
     internal : {<<HeaderLine, L1, L3, L5>>, <<HeaderLine, L4>>}]

-----------------------------------------------------------------------------
(* Initial states: the components after their useState initialisers *)

\* how a settled fetch ended: .then ran to its end, or .catch ran
Outcome(r, result) == [id |-> r.id, type |-> r.type, result |-> result]

FlushInit ==
    /\ summary = EmptyMap
    /\ dailyTotals = <<>>
    /\ isInitialLoading = TRUE
    /\ sortBy = "amount"
    /\ sortDirection = "desc"
    /\ transactionType = "send"
    /\ isDropdownOpen = FALSE
    /\ mounted = FALSE
    /\ pending = {}
    /\ nextId = 0
    /\ settled = <<>>

PipeIdle ==
    /\ csv = <<HeaderLine>>
    /\ pType = "send"
    /\ lineIdx = 1
    /\ transactionSummary = EmptyMap
    /\ dailyAmounts = EmptyMap
    /\ pPhase = "idle"

LobbyInit ==
    /\ lobbyLimit = Tenths(10)
    /\ lobbySkip = 0
    /\ memberAddresses = <<"">>
    /\ lobbyWarned = FALSE
    /\ lobbyQuery = [loading |-> TRUE, error |-> FALSE]
    /\ lobbyData = NoData
    /\ lobbyCrashed = FALSE

StakesInit ==
    /\ stakesQuery = [loading |-> TRUE, error |-> FALSE]
    /\ stakesData = NoData
    /\ stakesSortField = "start"
    /\ stakesSortDirection = "desc"
    /\ stakesLimit = 10
    /\ stakesSkip = 0
    /\ searchAddress = ""
    /\ startDateRange = [from |-> "2019-12-03", to |-> Today]
    /\ endDateRange = [from |-> "2019-12-03", to |-> "2050-01-01"]
    /\ statusFilter = "all"

-----------------------------------------------------------------------------
(* One run of the callback, one line per step (specification SpecPipe) *)

\* the callback starts on a fetched text with fresh accumulators
InitPipe ==
    /\ FlushInit
    /\ files = [all |-> <<HeaderLine>>, internal |-> <<HeaderLine>>]
    /\ csv \in CsvTexts
    /\ pType \in Types
    /\ lineIdx = 1
    /\ transactionSummary = EmptyMap
    /\ dailyAmounts = EmptyMap
    /\ pPhase = "parsing"
    /\ LobbyInit
    /\ StakesInit

\* the forEach body on the next line; an exception ends the loop
PipeStep ==
    /\ pPhase = "parsing"
    /\ lineIdx <= Len(Lines(csv))
    /\ LET r == ProcessLine(pType, Lines(csv)[lineIdx],
                            Acc(transactionSummary, dailyAmounts, FALSE))
       IN  /\ transactionSummary' = r.summary
           /\ dailyAmounts' = r.daily
           /\ pPhase' = IF r.thrown THEN "thrown" ELSE "parsing"
    /\ lineIdx' = lineIdx + 1
    /\ UNCHANGED <<csv, pType, flushVars, lobbyVars, stakesVars>>

\* after the loop: sort the day buckets, accumulate, setSummary,
\* setDailyTotals, setIsInitialLoading(false)
PipeFinish ==
    /\ pPhase = "parsing"
    /\ lineIdx > Len(Lines(csv))
    /\ summary' = transactionSummary
    /\ dailyTotals' = DailyTotalsOf(dailyAmounts)
    /\ isInitialLoading' = FALSE
    /\ pPhase' = "done"
    /\ UNCHANGED <<sortBy, sortDirection, transactionType, isDropdownOpen,
                   files, mounted, pending, nextId, settled>>
    /\ UNCHANGED <<csv, pType, lineIdx, transactionSummary, dailyAmounts>>
    /\ UNCHANGED <<lobbyVars, stakesVars>>

\* .catch(error => ...): console.error, setIsInitialLoading(false)
PipeCatch ==
    /\ pPhase = "thrown"
    /\ isInitialLoading' = FALSE
    /\ pPhase' = "caught"
    /\ UNCHANGED <<summary, dailyTotals, sortBy, sortDirection,
                   transactionType, isDropdownOpen, files, mounted, pending,
                   nextId, settled>>
    /\ UNCHANGED <<csv, pType, lineIdx, transactionSummary, dailyAmounts>>
    /\ UNCHANGED <<lobbyVars, stakesVars>>

NextPipe == PipeStep \/ PipeFinish \/ PipeCatch

SpecPipe == InitPipe /\ [][NextPipe]_vars

-----------------------------------------------------------------------------
(* The FlushTransactions component (specification SpecFlush) *)

InitFlush ==
    /\ FlushInit
    /\ files \in FlushFiles
    /\ PipeIdle
    /\ LobbyInit
    /\ StakesInit

\* const csvFile = transactionType === 'internal' ? '/internal-trans.csv'
\*                                                : '/all-trans.csv'
CsvFile(type) == IF type = "internal" THEN files.internal ELSE files.all

\* fetch(csvFile) of one run of the effect; the callbacks close over the
\* transactionType of the render that ran the effect
Request(id, type) == [id |-> id, type |-> type]

\* the effect runs after the first render
Mount ==
    /\ ~mounted
    /\ mounted' = TRUE
    /\ nextId' = nextId + 1
    /\ pending' = pending \cup {Request(nextId + 1, transactionType)}
    /\ UNCHANGED <<summary, dailyTotals, isInitialLoading, sortBy,
                   sortDirection, transactionType, isDropdownOpen, files,
                   settled>>
    /\ UNCHANGED <<pipeVars, lobbyVars, stakesVars>>

\* faulty variant: the effect does not depend on isInitialLoading
SettleLoading_NoRefetch(r) ==
    /\ isInitialLoading' = FALSE
    /\ nextId' = nextId
    /\ pending' = pending \ {r}

\* What settling a fetch does to isInitialLoading and to the fetches in
\* flight: setIsInitialLoading(false) on the first settle changes a
\* dependency of the effect, which runs again and fetches again.
SettleLoading(r) ==
    IF isInitialLoading
    THEN /\ isInitialLoading' = FALSE
         /\ nextId' = nextId + 1
         /\ pending' = (pending \ {r})
                          \cup {Request(nextId + 1, transactionType)}
    ELSE /\ isInitialLoading' = FALSE
         /\ nextId' = nextId
         /\ pending' = pending \ {r}

\* faulty variant: a response is applied only when its type is still the selected one
ApplyResult_IfCurrent(r, res) ==
    IF r.type = transactionType
    THEN summary' = res.summary /\ dailyTotals' = res.dailyTotals
    ELSE summary' = summary /\ dailyTotals' = dailyTotals

\* faulty variant: the accumulators of a run start from the displayed state
ApplyResult_Incremental(r, res) ==
    /\ summary' = [k \in (DOMAIN summary) \cup (DOMAIN res.summary) |->
                     IF k \in DOMAIN res.summary /\ k \in DOMAIN summary
                     THEN [res.summary[k] EXCEPT
                             !.amount = @ + summary[k].amount,
                             !.count = @ + summary[k].count]
                     ELSE IF k \in DOMAIN res.summary THEN res.summary[k]
                     ELSE summary[k]]
    /\ dailyTotals' = res.dailyTotals

\* setSummary(transactionSummary); setDailyTotals(dailyTotals);
ApplyResult(r, res) ==
    /\ summary' = res.summary
    /\ dailyTotals' = res.dailyTotals

\* faulty variant: the catch handler leaves isInitialLoading alone
CatchHandler_KeepsSkeleton(r) ==
    /\ isInitialLoading' = isInitialLoading
    /\ nextId' = nextId
    /\ pending' = pending \ {r}
    /\ settled' = Append(settled, Outcome(r, "error"))
    /\ UNCHANGED <<summary, dailyTotals>>

\* faulty variant: the catch handler clears the displayed data
CatchHandler_ClearsData(r) ==
    /\ SettleLoading(r)
    /\ settled' = Append(settled, Outcome(r, "error"))
    /\ summary' = EmptyMap
    /\ dailyTotals' = <<>>

\* .catch(error => { console.error(...); if (isInitialLoading)
\*                   setIsInitialLoading(false); })
CatchHandler(r) ==
    /\ SettleLoading(r)
    /\ settled' = Append(settled, Outcome(r, "error"))
    /\ UNCHANGED <<summary, dailyTotals>>

\* the response of a fetch arrives: .then(response => response.text())
\* .then(csv => { ... }); an exception in the callback goes to .catch
FetchResolve(r) ==
    /\ r \in pending
    /\ LET res == RunPipeline(r.type, CsvFile(r.type))
       IN  IF res.thrown
           THEN CatchHandler(r)
           ELSE /\ ApplyResult(r, res)
                /\ SettleLoading(r)
                /\ settled' = Append(settled, Outcome(r, "success"))
    /\ UNCHANGED <<sortBy, sortDirection, transactionType, isDropdownOpen,
                   files, mounted>>
    /\ UNCHANGED <<pipeVars, lobbyVars, stakesVars>>

\* the fetch fails (network error): .catch
FetchReject(r) ==
    /\ r \in pending
    /\ CatchHandler(r)
    /\ UNCHANGED <<sortBy, sortDirection, transactionType, isDropdownOpen,
                   files, mounted>>
    /\ UNCHANGED <<pipeVars, lobbyVars, stakesVars>>

\* what the component renders: the skeleton alone while isInitialLoading,
\* else the header with the type menu, the totals, the table and the chart
FlushRendered ==
    IF isInitialLoading THEN {"skeleton"}
    ELSE {"header", "totals", "table", "chart"}
            \cup (IF isDropdownOpen THEN {"menu"} ELSE {})

\* onClick={() => setIsDropdownOpen(!isDropdownOpen)} on the header
ToggleDropdown ==
    /\ "header" \in FlushRendered
    /\ isDropdownOpen' = ~isDropdownOpen
    /\ UNCHANGED <<summary, dailyTotals, isInitialLoading, sortBy,
                   sortDirection, transactionType, files, mounted, pending,
                   nextId, settled>>
    /\ UNCHANGED <<pipeVars, lobbyVars, stakesVars>>

\* onClick of a menu entry: setTransactionType(type);
\* setIsDropdownOpen(false); a changed transactionType runs the effect again
SelectType(type) ==
    /\ "menu" \in FlushRendered
    /\ transactionType' = type
    /\ isDropdownOpen' = FALSE
    /\ IF type # transactionType
       THEN /\ nextId < MaxFetches
            /\ nextId' = nextId + 1
            /\ pending' = pending \cup {Request(nextId + 1, type)}
       ELSE UNCHANGED <<nextId, pending>>
    /\ UNCHANGED <<summary, dailyTotals, isInitialLoading, sortBy,
                   sortDirection, files, mounted, settled>>
    /\ UNCHANGED <<pipeVars, lobbyVars, stakesVars>>

\* the sortable column headers of the table: Count is not rendered for
\* internal transactions
SortFields ==
    IF transactionType = "internal" THEN {"amount", "date"}
    ELSE {"amount", "count", "date"}

\* faulty variant: a newly selected field keeps the direction in force
toggleSortState_KeepsDirection(by, direction, field) ==
    IF by = field
    THEN [field |-> by,
          direction |-> IF direction = "asc" THEN "desc" ELSE "asc"]
    ELSE [field |-> field, direction |-> direction]

\* the body of toggleSort: the sort state that setSortBy / setSortDirection
\* leave, from the sort state of the render and the clicked field
toggleSortState(by, direction, field) ==
    IF by = field
    THEN [field |-> by,
          direction |-> IF direction = "asc" THEN "desc" ELSE "asc"]
    ELSE [field |-> field, direction |-> "desc"]

\* const toggleSort = (field) => { ... }, onClick of a column header
toggleSort(field) ==
    /\ "table" \in FlushRendered
    /\ field \in SortFields
    /\ sortBy' = toggleSortState(sortBy, sortDirection, field).field
    /\ sortDirection' = toggleSortState(sortBy, sortDirection, field).direction
    /\ UNCHANGED <<summary, dailyTotals, isInitialLoading, transactionType,
                   isDropdownOpen, files, mounted, pending, nextId,
                   settled>>
    /\ UNCHANGED <<pipeVars, lobbyVars, stakesVars>>

\* a[sortBy] of the comparator, b.lastDate.getTime() when sorting by date
SortValue(entry, by) ==
    IF by = "date" THEN entry.lastDate
    ELSE IF by = "count" THEN Num(entry.count)
    ELSE Num(entry.amount)

\* the comparator of sortedTransactions: (a - b) * multiplier; NaN (of an
\* Invalid Date) is taken as 0 by Array.prototype.sort
Compare(a, b, by, direction) ==
    LET x == SortValue(a, by)
        y == SortValue(b, by)
        multiplier == IF direction = "asc" THEN 1 ELSE -1
    IN  IF x.nan \/ y.nan THEN 0 ELSE (x.n - y.n) * multiplier

\* Array.prototype.sort with the comparator: the entries in an order the
\* comparator accepts. Entries the comparator holds equal stay in the order
\* of Object.values (the keys' insertion order), which a map of the model
\* does not record: the model fixes one order among them.
RECURSIVE SortEntries(_, _, _)
SortEntries(entries, by, direction) ==
    IF entries = {} THEN <<>>
    ELSE LET first == CHOOSE e \in entries :
                          \A x \in entries : Compare(e, x, by, direction) <= 0
         IN  <<first>> \o SortEntries(entries \ {first}, by, direction)

\* faulty variant: the direction is not applied
sortedTransactions_Ascending ==
    SortEntries({summary[k] : k \in DOMAIN summary}, sortBy, "asc")

\* const sortedTransactions = Object.values(summary).sort((a, b) => ...)
sortedTransactions ==
    SortEntries({summary[k] : k \in DOMAIN summary}, sortBy, sortDirection)

NextFlush ==
    \/ Mount
    \/ \E r \in pending : FetchResolve(r)
    \/ \E r \in pending : FetchReject(r)
    \/ ToggleDropdown
    \/ \E type \in Types : SelectType(type)
    \/ \E field \in {"amount", "count", "date"} : toggleSort(field)

SpecFlush == InitFlush /\ [][NextFlush]_vars

-----------------------------------------------------------------------------
(* The XfLobbyEnters component (specification SpecLobby) *)

\* BigInt(string): the value of an integer string, a SyntaxError for any
\* other string. A BigInt has no upper limit; the values are counted in
\* units of 10^15 wei.
BigIntOf(s) ==
    CASE s = "" -> [throws |-> FALSE, v |-> 0]
      [] s = "1236000000000000000" -> [throws |-> FALSE, v |-> 1236]
      [] s = "2506000000000000000" -> [throws |-> FALSE, v |-> 2506]
      [] OTHER -> [throws |-> TRUE, v |-> 0]

\* Number(string) of a rawAmount, in units of 10^15 wei: 1.5 wei is below
\* the unit
NumberOfWei(s) ==
    CASE s = "1236000000000000000" -> 1236
      [] s = "2506000000000000000" -> 2506
      [] OTHER -> 0

\* x / Math.pow(10, 18) shown by toLocaleString with two fraction digits: the
\* hundredths of an ETH nearest to x
TwoDecimals(x) == (x + 5) \div 10

\* const formatAmount = (rawAmount: string) => { ... }: the Amount of a row
formatAmount(rawAmount) == TwoDecimals(NumberOfWei(rawAmount))

\* const calculateTotalEth = () => { ... }: the exact integer sum of the
\* page's rawAmount values (before the final division), or the exception
\* BigInt throws
RECURSIVE SumWei(_, _)
SumWei(rows, i) ==
    IF i = 0 THEN [throws |-> FALSE, v |-> 0]
    ELSE LET sum == SumWei(rows, i - 1)
             x == BigIntOf(rows[i])
         IN  IF sum.throws \/ x.throws THEN [throws |-> TRUE, v |-> 0]
             ELSE [throws |-> FALSE, v |-> sum.v + x.v]

calculateTotalEth(data) ==
    IF ~data.defined THEN [throws |-> FALSE, v |-> 0]
    ELSE SumWei(data.rows, Len(data.rows))

\* rawAmount strings a fetched row can carry, and the pages of the model
RawAmounts == {"1236000000000000000", "2506000000000000000", "1.5", ""}
LobbyPages == BoundedSeq(RawAmounts, MaxRows)

\* texts typed into 'Results Per Page'
LimitInputs == {"", "abc", "5", "25", "2000", "10.5"}

\* e.target.value of an <input type="number">: the typed text when it is a
\* valid floating-point number, the empty string otherwise
InputValue(text) == IF text = "abc" THEN "" ELSE text

\* Number(e.target.value), in tenths
NumberOf(value) ==
    CASE value = "" -> 0
      [] value = "5" -> Tenths(5)
      [] value = "25" -> Tenths(25)
      [] value = "2000" -> Tenths(2000)
      [] value = "10.5" -> 105

\* entries typed into 'Addresses (comma-separated)'
Addr1 == "0x1111111111111111111111111111111111111111"
Addr2Upper == "0X22222222222222222222222222222222222222Ab"
TargetSpaced == " 0xDEC9f2793e3c17cd26eeFb21C4762fA5128E0399 "
ShortAddr == "0x123"
NoPrefix == "hello00000000000000000000000000000000000000"
Padded40 == " 0x33333333333333333333333333333333333333 "

\* texts of the address input
AddressTexts ==
    {<<"">>, <<Addr1>>, <<ShortAddr>>, <<TargetSpaced, Addr2Upper>>,
     <<Addr1, ShortAddr>>, <<NoPrefix, Padded40>>, <<ShortAddr, Addr1, "">>}

InitLobby ==
    /\ LobbyInit
    /\ FlushInit
    /\ files = [all |-> <<HeaderLine>>, internal |-> <<HeaderLine>>]
    /\ PipeIdle
    /\ StakesInit

\* faulty variant: the error message is shown above the controls
LobbyRendered_ErrorAboveControls ==
    (IF lobbyQuery.error THEN {"error"} ELSE {})
        \cup {"controls"}
        \cup (IF lobbyData.defined THEN {"totals"} ELSE {})
        \cup (IF lobbyQuery.loading THEN {"skeleton"}
              ELSE {"rows", "pagination"})

\* what the component renders: the error message alone when the query has
\* failed; else the controls, the totals when data is there, and the
\* skeleton while loading or the rows and the pagination buttons
LobbyRendered ==
    IF lobbyQuery.error THEN {"error"}
    ELSE {"controls"}
            \cup (IF lobbyData.defined THEN {"totals"} ELSE {})
            \cup (IF lobbyQuery.loading THEN {"skeleton"}
                  ELSE {"rows", "pagination"})

\* addr.trim().toLowerCase()
Normalize(addr) == ToLowerCase(Trim(addr))

\* addr.length === 42 && addr.startsWith('0x')
IsAddress(addr) == Len(addr) = 42 /\ StartsWith0x(addr)

\* faulty variant: the entries are tested before they are normalized
Addresses_FilterFirst(text) ==
    IF text = <<"">> THEN <<>>
    ELSE LET kept == SelectSeq(text, IsAddress)
         IN  [i \in 1..Len(kept) |-> Normalize(kept[i])]

\* const addresses = useMemo(() => { ... }, [memberAddresses])
Addresses(text) ==
    IF text = <<"">> THEN <<>>
    ELSE SelectSeq([i \in 1..Len(text) |-> Normalize(text[i])], IsAddress)

\* the query document and the variables handed to useQuery: memberAddresses
\* is among the variables only when there is an address
LobbyRequest(limit, skip, text) ==
    [query |-> IF Len(Addresses(text)) > 0
               THEN "GET_XF_LOBBY_ENTERS_WITH_ADDRESSES"
               ELSE "GET_XF_LOBBY_ENTERS_BASE",
     first |-> limit,
     skip |-> skip,
     hasMemberAddresses |-> Len(Addresses(text)) > 0,
     memberAddresses |-> Addresses(text)]

\* the effect on [memberAddresses, addresses]: whether it calls console.warn
WarningEffect(text) == text # <<"">> /\ Len(Addresses(text)) = 0

\* useQuery with changed variables: the query is loading again
LobbyRefetch ==
    /\ lobbyQuery' = [loading |-> TRUE, error |-> FALSE]
    /\ lobbyData' = NoData

\* onChange of 'Results Per Page'
LobbySetLimit(text) ==
    /\ ~lobbyCrashed
    /\ "controls" \in LobbyRendered
    /\ LET value == NumberOf(InputValue(text))
       IN  lobbyLimit' = (IF value < Tenths(10) THEN Tenths(10)
                          ELSE IF value > Tenths(1000) THEN Tenths(1000)
                          ELSE value)
    /\ IF lobbyLimit' # lobbyLimit THEN LobbyRefetch
       ELSE UNCHANGED <<lobbyQuery, lobbyData>>
    /\ UNCHANGED <<lobbySkip, memberAddresses, lobbyWarned, lobbyCrashed>>
    /\ UNCHANGED <<flushVars, pipeVars, stakesVars>>

\* setMemberAddresses(text): onChange of the address input, its clear
\* button, or a click on a row's address; then the warning effect, and the
\* query again when its document or its variables have changed
LobbySetAddresses(text) ==
    /\ ~lobbyCrashed
    /\ "controls" \in LobbyRendered
    /\ text # memberAddresses
    /\ memberAddresses' = text
    /\ lobbyWarned' = WarningEffect(text)
    /\ IF LobbyRequest(lobbyLimit, lobbySkip, text) #
             LobbyRequest(lobbyLimit, lobbySkip, memberAddresses)
       THEN LobbyRefetch
       ELSE UNCHANGED <<lobbyQuery, lobbyData>>
    /\ UNCHANGED <<lobbyLimit, lobbySkip, lobbyCrashed>>
    /\ UNCHANGED <<flushVars, pipeVars, stakesVars>>

\* disabled={!data?.xfLobbyEnters.length} of 'Next Page'
NextDisabled == ~(lobbyData.defined /\ Len(lobbyData.rows) > 0)

\* disabled={skip === 0} of 'Previous Page'
PrevDisabled == lobbySkip = 0

\* const handleNextPage = () => setSkip(prev => prev + limit); the button is
\* disabled when the page has no rows
handleNextPage ==
    /\ ~lobbyCrashed
    /\ "pagination" \in LobbyRendered
    /\ ~NextDisabled
    /\ lobbySkip + lobbyLimit <= Tenths(MaxSkip)
    /\ lobbySkip' = lobbySkip + lobbyLimit
    /\ LobbyRefetch
    /\ UNCHANGED <<lobbyLimit, memberAddresses, lobbyWarned, lobbyCrashed>>
    /\ UNCHANGED <<flushVars, pipeVars, stakesVars>>

\* faulty variant: the previous page is not floored at 0
handlePrevPage_NoFloor ==
    /\ ~lobbyCrashed
    /\ "pagination" \in LobbyRendered
    /\ ~PrevDisabled
    /\ lobbySkip' = lobbySkip - lobbyLimit
    /\ LobbyRefetch
    /\ UNCHANGED <<lobbyLimit, memberAddresses, lobbyWarned, lobbyCrashed>>
    /\ UNCHANGED <<flushVars, pipeVars, stakesVars>>

\* const handlePrevPage = () => setSkip(prev => Math.max(0, prev - limit));
\* the button is disabled when skip === 0
handlePrevPage ==
    /\ ~lobbyCrashed
    /\ "pagination" \in LobbyRendered
    /\ ~PrevDisabled
    /\ lobbySkip' = (IF lobbySkip - lobbyLimit > 0
                     THEN lobbySkip - lobbyLimit ELSE 0)
    /\ LobbyRefetch
    /\ UNCHANGED <<lobbyLimit, memberAddresses, lobbyWarned, lobbyCrashed>>
    /\ UNCHANGED <<flushVars, pipeVars, stakesVars>>

\* the query completes with a page, which it can only when $first: Int! and
\* $skip: Int! are given integers; the render that follows evaluates
\* calculateTotalEth(), and an exception thrown while rendering is not
\* caught anywhere in the component
LobbyComplete(page) ==
    /\ ~lobbyCrashed
    /\ lobbyQuery.loading
    /\ IsInteger(lobbyLimit) /\ IsInteger(lobbySkip)
    /\ lobbyQuery' = [loading |-> FALSE, error |-> FALSE]
    /\ lobbyData' = Data(page)
    /\ lobbyCrashed' = calculateTotalEth(Data(page)).throws
    /\ UNCHANGED <<lobbyLimit, lobbySkip, memberAddresses, lobbyWarned>>
    /\ UNCHANGED <<flushVars, pipeVars, stakesVars>>

\* the query fails: if (error) return <div>Error: {error.message}</div>
LobbyFail ==
    /\ ~lobbyCrashed
    /\ lobbyQuery.loading
    /\ lobbyQuery' = [loading |-> FALSE, error |-> TRUE]
    /\ lobbyData' = NoData
    /\ UNCHANGED <<lobbyLimit, lobbySkip, memberAddresses, lobbyWarned,
                   lobbyCrashed>>
    /\ UNCHANGED <<flushVars, pipeVars, stakesVars>>

NextLobby ==
    \/ \E text \in LimitInputs : LobbySetLimit(text)
    \/ \E text \in AddressTexts : LobbySetAddresses(text)
    \/ handleNextPage
    \/ handlePrevPage
    \/ \E page \in LobbyPages : LobbyComplete(page)
    \/ LobbyFail

SpecLobby == InitLobby /\ [][NextLobby]_vars

-----------------------------------------------------------------------------
(* The StakesPage: query, filters and table (specification SpecStakes) *)

\* const HEX_LAUNCH_TIMESTAMP = 1575331200 and const SECONDS_PER_DAY = 86400,
\* in hours
HEX_LAUNCH_TIMESTAMP == 1575331200 \div 3600
SECONDS_PER_DAY == 86400 \div 3600

\* interface StakeStart with its optional StakeEnd; an absent stakeEnd has
\* present = FALSE and its other fields unused
NoStakeEnd ==
    [present |-> FALSE, payout |-> 0, penalty |-> 0, servedDays |-> 0,
     daysLate |-> 0, daysEarly |-> 0, timestamp |-> 0]
StakeEnd(payout, penalty, servedDays, daysLate, daysEarly, timestamp) ==
    [present |-> TRUE, payout |-> payout, penalty |-> penalty,
     servedDays |-> servedDays, daysLate |-> daysLate,
     daysEarly |-> daysEarly, timestamp |-> timestamp]
StakeStart(id, addr, timestamp, endDay, stakedDays, hearts, tShares, end) ==
    [id |-> id, stakerAddr |-> addr, timestamp |-> timestamp,
     endDay |-> endDay, stakedDays |-> stakedDays, stakedHearts |-> hearts,
     stakeTShares |-> tShares, stakeEnd |-> end]

StakerA == "0xab00000000000000000000000000000000000001"
StakerB == "0xcd00000000000000000000000000000000000002"

\* started 2021-06-01T00:00Z, still running
ActiveStake ==
    StakeStart("s1", StakerA, 450696, 800, 300, 100, 5, NoStakeEnd)
\* started 2021-01-01T00:00Z, expected to end 2021-01-01, ended 2022-01-01
EndedStake ==
    StakeStart("s2", TargetMixed, 447072, 395, 300, 200, 7,
               StakeEnd(50, 0, 300, 2, 0, 455832))
\* started 2020-06-01T12:00Z, ended early together with EndedStake
EarlyStake ==
    StakeStart("s3", StakerA, 441948, 300, 100, 100, 5,
               StakeEnd(10, 4, 90, 0, 10, 455832))
\* ended stakes of zero hearts, without and with a payout
EmptyStake ==
    StakeStart("s4", StakerB, 450696, 800, 350, 0, 0,
               StakeEnd(0, 0, 350, 0, 0, 464592))
GiftStake ==
    StakeStart("s5", StakerB, 450696, 800, 350, 0, 0,
               StakeEnd(30, 0, 350, 0, 0, 464592))

StakeRows == {ActiveStake, EndedStake, EarlyStake, EmptyStake, GiftStake}

\* data.stakeStarts of a completed query
StakesPages == BoundedSeq(StakeRows, MaxStakes)

\* the pages the filters are exercised on: rows that differ in what the
\* four tests read
FilterPages == BoundedSeq({ActiveStake, EndedStake, EarlyStake}, MaxStakes)

\* what the user types or picks in the controls
StatusFilters == {"all", "active", "ended"}
SearchTexts == {"", "  ", "0xDEC9F2"}
DateInputs == {"2021-01-01", ""}
StakesLimitInputs == {"", "5", "25", "2000"}

InitStakes ==
    /\ StakesInit
    /\ FlushInit
    /\ files = [all |-> <<HeaderLine>>, internal |-> <<HeaderLine>>]
    /\ PipeIdle
    /\ LobbyInit

\* {loading && ...} {error && ...} {data?.stakeStarts && (...)} below the
\* filters
StakesRendered ==
    {"filters"}
        \cup (IF stakesQuery.loading THEN {"loading"} ELSE {})
        \cup (IF stakesQuery.error THEN {"error"} ELSE {})
        \cup (IF stakesData.defined THEN {"table"} ELSE {})

\* type SortField: the sortable columns of the stakes table
StakesSortFields ==
    {"start", "expEnd", "days", "hexStaked", "tShares", "stakeEnded",
     "yield", "minted", "roi", "daysServed", "earlyLate", "penalty"}

\* const sortFieldMapping: Record<SortField, string>
sortFieldMapping(field) ==
    CASE field = "start" -> "timestamp"
      [] field = "expEnd" -> "endDay"
      [] field = "days" -> "stakedDays"
      [] field = "hexStaked" -> "stakedHearts"
      [] field = "tShares" -> "stakeTShares"
      [] field = "stakeEnded" -> "stakeEnd__timestamp"
      [] field = "yield" -> "stakeEnd__payout"
      [] field = "minted" -> "stakedHearts"
      [] field = "roi" -> "stakeEnd__payout"
      [] field = "daysServed" -> "stakeEnd__servedDays"
      [] field = "earlyLate" -> "stakeEnd__daysLate"
      [] field = "penalty" -> "stakeEnd__penalty"

\* the body of handleSort: the sort state that setSortField /
\* setSortDirection leave
handleSortState(by, direction, field) ==
    IF by = field
    THEN [field |-> by,
          direction |-> IF direction = "asc" THEN "desc" ELSE "asc"]
    ELSE [field |-> field, direction |-> "desc"]

\* const queryVariables = { first, skip, timestampFrom, orderBy,
\* orderDirection }
queryVariablesOf(limit, skip, from, field, direction) ==
    [first |-> limit, skip |-> skip, timestampFrom |-> UnixTime(from),
     orderBy |-> sortFieldMapping(field), orderDirection |-> direction]

\* faulty variant: the upper bound of the start range is sent to the server
\* as well
queryVariables_WithTo ==
    [first |-> stakesLimit, skip |-> stakesSkip,
     timestampFrom |-> UnixTime(startDateRange.from),
     orderBy |-> sortFieldMapping(stakesSortField),
     orderDirection |-> stakesSortDirection,
     timestampTo |-> UnixTime(startDateRange.to)]

queryVariables ==
    queryVariablesOf(stakesLimit, stakesSkip, startDateRange.from,
                     stakesSortField, stakesSortDirection)

\* useQuery(GET_STAKES_DATA, { variables: queryVariables }) on a render:
\* changed variables run the query again, and data is undefined meanwhile
StakesQueryOnRender ==
    IF queryVariables' # queryVariables
    THEN /\ stakesQuery' = [loading |-> TRUE, error |-> FALSE]
         /\ stakesData' = NoData
    ELSE UNCHANGED <<stakesQuery, stakesData>>

\* the server answers; $timestampFrom: BigInt! refuses the null an Invalid
\* Date is sent as
StakesComplete(page) ==
    /\ stakesQuery.loading
    /\ ~queryVariables.timestampFrom.nan
    /\ stakesQuery' = [loading |-> FALSE, error |-> FALSE]
    /\ stakesData' = Data(page)
    /\ UNCHANGED <<stakesSortField, stakesSortDirection, stakesControls>>
    /\ UNCHANGED <<flushVars, pipeVars, lobbyVars>>

StakesFail ==
    /\ stakesQuery.loading
    /\ stakesQuery' = [loading |-> FALSE, error |-> TRUE]
    /\ stakesData' = NoData
    /\ UNCHANGED <<stakesSortField, stakesSortDirection, stakesControls>>
    /\ UNCHANGED <<flushVars, pipeVars, lobbyVars>>

\* const handleSort = (field: SortField) => { ... }, onClick of a column
\* header of the table; changed query variables run the query again
handleSort(field) ==
    /\ "table" \in StakesRendered
    /\ LET next == handleSortState(stakesSortField, stakesSortDirection, field)
       IN  /\ stakesSortField' = next.field
           /\ stakesSortDirection' = next.direction
    /\ UNCHANGED stakesControls
    /\ StakesQueryOnRender
    /\ UNCHANGED <<flushVars, pipeVars, lobbyVars>>

\* onChange of the status select
setStatusFilter(value) ==
    /\ statusFilter' = value
    /\ UNCHANGED <<stakesLimit, stakesSkip, searchAddress, startDateRange,
                   endDateRange, stakesSortField, stakesSortDirection>>
    /\ StakesQueryOnRender
    /\ UNCHANGED <<flushVars, pipeVars, lobbyVars>>

\* onChange of the address search input
setSearchAddress(text) ==
    /\ searchAddress' = text
    /\ UNCHANGED <<stakesLimit, stakesSkip, statusFilter, startDateRange,
                   endDateRange, stakesSortField, stakesSortDirection>>
    /\ StakesQueryOnRender
    /\ UNCHANGED <<flushVars, pipeVars, lobbyVars>>

\* onChange of the two date inputs of the start range
setStartDateRange(end, value) ==
    /\ startDateRange' = [startDateRange EXCEPT ![end] = value]
    /\ UNCHANGED <<stakesLimit, stakesSkip, statusFilter, searchAddress,
                   endDateRange, stakesSortField, stakesSortDirection>>
    /\ StakesQueryOnRender
    /\ UNCHANGED <<flushVars, pipeVars, lobbyVars>>

\* onChange of the two date inputs of the expected-end range
setEndDateRange(end, value) ==
    /\ endDateRange' = [endDateRange EXCEPT ![end] = value]
    /\ UNCHANGED <<stakesLimit, stakesSkip, statusFilter, searchAddress,
                   startDateRange, stakesSortField, stakesSortDirection>>
    /\ StakesQueryOnRender
    /\ UNCHANGED <<flushVars, pipeVars, lobbyVars>>

\* onChange of the Results Per Page input:
\* Math.min(1000, Math.max(10, parseInt(e.target.value) || 10)), setSkip(0)
setStakesLimit(text) ==
    /\ stakesLimit' =
          MathMin(Num(1000), MathMax(Num(10), OrElse(ParseInt(text), Num(10)))).n
    /\ stakesSkip' = 0
    /\ UNCHANGED <<statusFilter, searchAddress, startDateRange, endDateRange,
                   stakesSortField, stakesSortDirection>>
    /\ StakesQueryOnRender
    /\ UNCHANGED <<flushVars, pipeVars, lobbyVars>>

\* the four tests of the filter callback of filteredStakes

\* faulty variant: 'active' excludes nothing
StatusTest_IgnoresActive(stake) ==
    ~(statusFilter = "ended" /\ ~stake.stakeEnd.present)

StatusTest(stake) ==
    /\ ~(statusFilter = "active" /\ stake.stakeEnd.present)
    /\ ~(statusFilter = "ended" /\ ~stake.stakeEnd.present)

\* faulty variant: the address is compared as it is written
SearchTest_CaseSensitive(stake) ==
    ~(Trim(searchAddress) # "" /\ ~Includes(stake.stakerAddr, searchAddress))

SearchTest(stake) ==
    ~(/\ Trim(searchAddress) # ""
      /\ ~Includes(ToLowerCase(stake.stakerAddr), ToLowerCase(searchAddress)))

StartTest(stake) ==
    LET startTimestamp == Num(stake.timestamp)
        startFrom == UnixTime(startDateRange.from)
        startTo == UnixTime(startDateRange.to)
    IN  ~(Less(startTimestamp, startFrom) \/ Greater(startTimestamp, startTo))

\* HEX_LAUNCH_TIMESTAMP + (parseInt(stake.endDay) * SECONDS_PER_DAY)
getEndTimestamp(stake) == HEX_LAUNCH_TIMESTAMP + stake.endDay * SECONDS_PER_DAY

EndTest(stake) ==
    LET endTimestamp == Num(getEndTimestamp(stake))
        endFrom == UnixTime(endDateRange.from)
        endTo == UnixTime(endDateRange.to)
    IN  ~(Less(endTimestamp, endFrom) \/ Greater(endTimestamp, endTo))

PassesFilters(stake) ==
    StatusTest(stake) /\ SearchTest(stake) /\ StartTest(stake) /\ EndTest(stake)

\* const filteredStakes = useMemo(...)
filteredStakes ==
    IF ~stakesData.defined THEN <<>>
    ELSE SelectSeq(stakesData.rows, PassesFilters)

\* a JavaScript number as a quotient: n/0 is Infinity for n > 0 and NaN for
\* n = 0
Ratio(n, d) == [num |-> n, den |-> d]
IsNaN(x) == x.den = 0 /\ x.num = 0
IsInfinity(x) == x.den = 0 /\ x.num > 0

\* the sign of a - b, NaN when the difference is NaN
Minus(a, b) ==
    IF IsNaN(a) \/ IsNaN(b) \/ (IsInfinity(a) /\ IsInfinity(b)) THEN NaN
    ELSE IF IsInfinity(a) THEN Num(1)
    ELSE IF IsInfinity(b) THEN Num(-1)
    ELSE LET d == a.num * b.den - b.num * a.den
         IN  Num(IF d > 0 THEN 1 ELSE IF d < 0 THEN -1 ELSE 0)

\* faulty variant: a stake of zero hearts has ROI 0
RoiOf_Guarded(stake) ==
    IF stake.stakeEnd.present /\ stake.stakedHearts # 0
    THEN Ratio(stake.stakeEnd.payout, stake.stakedHearts)
    ELSE Ratio(0, 1)

\* aRoi = a.stakeEnd ? ((roiMintedA - aStaked) / aStaked) : 0
RoiOf(stake) ==
    IF stake.stakeEnd.present
    THEN LET aStaked == stake.stakedHearts
             roiMinted == stake.stakeEnd.payout + aStaked
         IN  Ratio(roiMinted - aStaked, aStaked)
    ELSE Ratio(0, 1)

\* the number a case of the comparator reads from a stake; x?.f || '0' of an
\* absent stakeEnd is 0
StakeValue(stake, field) ==
    LET end == stake.stakeEnd
        orZero(v) == IF end.present THEN v ELSE 0
    IN  CASE field = "start" -> Ratio(stake.timestamp, 1)
          [] field = "expEnd" -> Ratio(getEndTimestamp(stake), 1)
          [] field = "days" -> Ratio(stake.stakedDays, 1)
          [] field = "hexStaked" -> Ratio(stake.stakedHearts, 1)
          [] field = "tShares" -> Ratio(stake.stakeTShares, 1)
          [] field = "yield" -> Ratio(orZero(end.payout), 1)
          [] field = "minted" ->
                Ratio(orZero(end.payout) + stake.stakedHearts, 1)
          [] field = "roi" -> RoiOf(stake)
          [] field = "daysServed" -> Ratio(orZero(end.servedDays), 1)
          [] field = "earlyLate" ->
                Ratio(orZero(end.daysLate) - orZero(end.daysEarly), 1)
          [] field = "penalty" -> Ratio(orZero(end.penalty), 1)

\* the decimal digits of a timestamp string, most significant first
RECURSIVE Digits(_)
Digits(n) == IF n < 10 THEN <<n>> ELSE Append(Digits(n \div 10), n % 10)

\* a.stakeEnd?.timestamp || '0': the string of seconds the server sent
EndTimestampString(stake) ==
    IF stake.stakeEnd.present THEN Digits(stake.stakeEnd.timestamp * 3600)
    ELSE Digits(0)

\* String.prototype.localeCompare of two digit strings
RECURSIVE localeCompare(_, _)
localeCompare(s, t) ==
    IF s = <<>> /\ t = <<>> THEN 0
    ELSE IF s = <<>> THEN -1
    ELSE IF t = <<>> THEN 1
    ELSE IF Head(s) < Head(t) THEN -1
    ELSE IF Head(s) > Head(t) THEN 1
    ELSE localeCompare(Tail(s), Tail(t))

\* the comparator of sortedStakes: a number that may be NaN
CompareStakes(a, b, field, direction) ==
    LET dir == IF direction = "asc" THEN 1 ELSE -1
        d == IF field = "stakeEnded"
             THEN Num(localeCompare(EndTimestampString(a),
                                    EndTimestampString(b)))
             ELSE Minus(StakeValue(a, field), StakeValue(b, field))
    IN  IF d.nan THEN NaN ELSE Num(d.n * dir)

\* Array.prototype.sort: a stable insertion sort, a comparator result of NaN
\* counting as 0 (the order the standard leaves to the implementation when
\* the comparator is inconsistent is the one insertion gives)
RECURSIVE InsertStake(_, _, _, _)
InsertStake(sorted, x, field, direction) ==
    IF sorted = <<>> THEN <<x>>
    ELSE LET last == sorted[Len(sorted)]
             c == CompareStakes(last, x, field, direction)
         IN  IF ~c.nan /\ c.n > 0
             THEN Append(InsertStake(SubSeq(sorted, 1, Len(sorted) - 1), x,
                                     field, direction), last)
             ELSE Append(sorted, x)

RECURSIVE SortStakes(_, _, _)
SortStakes(rows, field, direction) ==
    IF rows = <<>> THEN <<>>
    ELSE InsertStake(SortStakes(SubSeq(rows, 1, Len(rows) - 1), field,
                                direction),
                     rows[Len(rows)], field, direction)

\* const sortedStakes = useMemo(...)
sortedStakes == SortStakes(filteredStakes, stakesSortField, stakesSortDirection)

\* the ROI cell of a row: the percentage with toFixed(2), or '-' for a stake
\* without stakeEnd
RoiCell(stake) ==
    IF ~stake.stakeEnd.present THEN [text |-> "-", value |-> Ratio(0, 1)]
    ELSE LET roi == Ratio((stake.stakeEnd.payout + stake.stakedHearts
                             - stake.stakedHearts) * 100, stake.stakedHearts)
         IN  [text |-> IF IsNaN(roi) THEN "NaN%"
                       ELSE IF IsInfinity(roi) THEN "Infinity%"
                       ELSE "percent",
              value |-> roi]

\* the ROI column of the rendered table
RoiColumn == [i \in 1..Len(sortedStakes) |-> RoiCell(sortedStakes[i])]

StakesFilterActions ==
    \/ \E value \in StatusFilters : setStatusFilter(value)
    \/ \E text \in SearchTexts : setSearchAddress(text)
    \/ \E end \in {"from", "to"} : \E value \in DateInputs :
          setStartDateRange(end, value)
    \/ \E end \in {"from", "to"} : \E value \in DateInputs :
          setEndDateRange(end, value)
    \/ \E text \in StakesLimitInputs : setStakesLimit(text)

NextStakes ==
    \/ \E page \in StakesPages : StakesComplete(page)
    \/ StakesFail
    \/ \E field \in StakesSortFields : handleSort(field)
    \/ StakesFilterActions

SpecStakes == InitStakes /\ [][NextStakes]_vars

\* the filters and the page size, the table staying in its initial order
NextStakesFilters ==
    \/ \E page \in FilterPages : StakesComplete(page)
    \/ StakesFail
    \/ StakesFilterActions

SpecStakesFilters == InitStakes /\ [][NextStakesFilters]_vars

\* the sorted table under the status filter
NextStakesTable ==
    \/ \E page \in StakesPages : StakesComplete(page)
    \/ StakesFail
    \/ \E field \in StakesSortFields : handleSort(field)
    \/ \E value \in StatusFilters : setStatusFilter(value)

SpecStakesTable == InitStakes /\ [][NextStakesTable]_vars

-----------------------------------------------------------------------------
(* The sortable tables of the flush component and of the stakes page, with
   the loads that bring them up (specification SpecSort); the type menu of
   the flush component stays closed *)

\* the stakes pages the sort handlers are exercised on
SortPages == {<<ActiveStake>>, <<>>}

InitSort ==
    /\ FlushInit
    /\ files \in FlushFiles
    /\ PipeIdle
    /\ LobbyInit
    /\ StakesInit

NextSort ==
    \/ Mount
    \/ \E r \in pending : FetchResolve(r)
    \/ \E r \in pending : FetchReject(r)
    \/ \E field \in {"amount", "count", "date"} : toggleSort(field)
    \/ \E page \in SortPages : StakesComplete(page)
    \/ StakesFail
    \/ \E field \in StakesSortFields : handleSort(field)

SpecSort == InitSort /\ [][NextSort]_vars

-----------------------------------------------------------------------------
(* Helpers of the properties *)

RECURSIVE SumInts(_)
SumInts(seq) == IF seq = <<>> THEN 0 ELSE Head(seq) + SumInts(Tail(seq))

RECURSIVE MapSum(_, _)
MapSum(f, S) ==
    IF S = {} THEN 0
    ELSE LET k == CHOOSE x \in S : TRUE IN f[k] + MapSum(f, S \ {k})

\* the sum of the amounts of a day-bucket series
SeriesTotal(series) == SumInts([i \in 1..Len(series) |-> series[i].amount])
\* the last cumulative value of a day-bucket series, 0 when it is empty
FinalCumulative(series) ==
    IF series = <<>> THEN 0 ELSE series[Len(series)].cumulative
\* the sums of count and of amount over the entries of a summary
TotalCount(s) == MapSum([k \in DOMAIN s |-> s[k].count], DOMAIN s)
TotalAmount(s) == MapSum([k \in DOMAIN s |-> s[k].amount], DOMAIN s)

\* a line the column-count check (or the blank-line check) drops, as the
\* specification states it
Droppable(type, line) ==
    \/ IsBlank(line)
    \/ Len(line) < (IF type = "internal" THEN 11 ELSE 15)

\* a send/receive row that is to be included, as the specification states it
Included(type, line) ==
    /\ ~IsBlank(line)
    /\ Len(line) >= 15
    /\ SendAmount(CleanColumns(line)) > 0
    /\ \/ type = "send"
          /\ ToLowerCase(StripQuotes(Col(line, 4))) = TARGET_ADDRESS
       \/ type = "receive"
          /\ ToLowerCase(StripQuotes(Col(line, 5))) = TARGET_ADDRESS

\* the key under which a data line is folded into the summary, and its time
KeyOf(type, line) ==
    IF type = "internal" THEN StripQuotes(StripPrefix(Col(line, 0)))
    ELSE IF type = "send" THEN ToLowerCase(StripQuotes(Col(line, 5)))
    ELSE ToLowerCase(StripQuotes(Col(line, 4)))
TimeOf(line) == NewDate(StripQuotes(Col(line, 3)))
Folded(type, line) ==
    IF type = "internal" THEN ~Droppable(type, line) ELSE Included(type, line)
AmountOf(type, line) ==
    IF type = "internal" THEN InternalAmount(CleanColumns(line))
    ELSE SendAmount(CleanColumns(line))

\* the fetches that settled with success, in the order they settled
Successes == SelectSeq(settled, LAMBDA o : o.result = "success")
LastOf(seq) == seq[Len(seq)]
\* what one run of the pipeline on the file of a type yields
ResultFor(type) == RunPipeline(type, CsvFile(type))

-----------------------------------------------------------------------------
(* C1 *)

\* C1: in every day-bucket series the pipeline produces, cumulative[0] is
\* amount[0], cumulative[i] = cumulative[i-1] + amount[i] for i > 0, and the
\* last cumulative value is the sum of all amounts of the series.
C1_CumulativeRecurrence ==
    LET n == Len(dailyTotals)
    IN  /\ n > 0 => dailyTotals[1].cumulative = dailyTotals[1].amount
        /\ \A i \in 2..n :
              dailyTotals[i].cumulative =
                  dailyTotals[i - 1].cumulative + dailyTotals[i].amount
        /\ n > 0 => dailyTotals[n].cumulative = SeriesTotal(dailyTotals)

\* a finished run whose series has three day buckets
C1_Witness ==
    /\ pPhase = "done"
    /\ Len(dailyTotals) = 3
    /\ dailyTotals[3].cumulative # dailyTotals[3].amount

-----------------------------------------------------------------------------
(* C2 *)

\* C2: during one aggregation pass, for every summary key and every
\* transaction type, each processed row leaves the key's amount and count
\* at least as large as before, and after the pass firstDate <= t <= lastDate
\* for the timestamp t of every row folded into the key.
C2_MonotoneAndBounded ==
    [][/\ \A k \in DOMAIN transactionSummary :
             /\ k \in DOMAIN transactionSummary'
             /\ transactionSummary'[k].amount >= transactionSummary[k].amount
             /\ transactionSummary'[k].count >= transactionSummary[k].count
       /\ pPhase' = "done" =>
             \A i \in 1..Len(Lines(csv)) :
                 LET line == Lines(csv)[i]
                 IN  Folded(pType, line) =>
                       LET e == summary'[KeyOf(pType, line)]
                       IN  /\ e.firstDate.n <= TimeOf(line).n
                           /\ TimeOf(line).n <= e.lastDate.n]_vars

-----------------------------------------------------------------------------
(* C3 *)

\* C3: in every day-bucket series, for every transaction type including
\* internal, the dates ascend, cumulative never decreases along the series,
\* and cumulative[i] is the sum of the amounts of the buckets dated <= date[i].
C3_AscendingNonDecreasing ==
    LET n == Len(dailyTotals)
    IN  /\ \A i \in 2..n :
              /\ dailyTotals[i - 1].date < dailyTotals[i].date
              /\ dailyTotals[i].cumulative >= dailyTotals[i - 1].cumulative
        /\ \A i \in 1..n :
              dailyTotals[i].cumulative =
                  SumInts([j \in 1..n |->
                              IF dailyTotals[j].date <= dailyTotals[i].date
                              THEN dailyTotals[j].amount ELSE 0])

-----------------------------------------------------------------------------
(* C9 *)

\* C9: a blank line, the header line and a data line with fewer than 11
\* (internal) or 15 (send/receive) columns contribute nothing, and the other
\* rows of the file are aggregated exactly as if those lines were absent.
C9_DroppedRowsChangeNothing ==
    LET kept == SelectSeq(Lines(csv), LAMBDA l : ~Droppable(pType, l))
        r == RunPipeline(pType, <<L7>> \o kept)
    IN  /\ pPhase = "done" =>
              /\ ~r.thrown
              /\ summary = r.summary
              /\ dailyTotals = r.dailyTotals
        /\ pPhase \in {"thrown", "caught"} => r.thrown

\* a finished run over a file with a short (non-blank) line and a line that
\* was aggregated
C9_Witness ==
    /\ pPhase = "done"
    /\ summary # EmptyMap
    /\ \E i \in 1..Len(Lines(csv)) :
          /\ ~IsBlank(Lines(csv)[i])
          /\ Droppable(pType, Lines(csv)[i])
    /\ \E i \in 1..Len(Lines(csv)) : IsBlank(Lines(csv)[i])
    /\ csv[1] = L1

-----------------------------------------------------------------------------
(* C10 *)

\* C10: in send/receive mode a row contributes if and only if its amount is
\* > 0 and its lowercased from (send) or to (receive) is TARGET_ADDRESS: each
\* step of the pass changes the summary accumulator exactly for such a row
\* (and the day buckets too, unless the row's timestamp makes the pass throw),
\* and a finished pass counts exactly those rows and sums exactly their
\* amounts.
C10_IncludedIffMatches ==
    [][/\ (pType # "internal" /\ lineIdx' = lineIdx + 1) =>
             (LET line == Lines(csv)[lineIdx]
              IN  /\ (transactionSummary' # transactionSummary)
                         <=> Included(pType, line)
                  /\ (dailyAmounts' # dailyAmounts)
                         <=> (Included(pType, line) /\ pPhase' # "thrown"))
       /\ (pType # "internal" /\ pPhase' = "done") =>
             (LET inc == SelectSeq(Lines(csv), LAMBDA l : Included(pType, l))
              IN  /\ TotalCount(summary') = Len(inc)
                  /\ SeriesTotal(dailyTotals') =
                         SumInts([i \in 1..Len(inc) |->
                                     SendAmount(CleanColumns(inc[i]))])
                  /\ DOMAIN summary' =
                         {KeyOf(pType, inc[i]) : i \in 1..Len(inc)})]_vars

\* a finished receive pass over a file with a row that matches only the send
\* direction and a row that matches the receive direction
C10_Witness ==
    /\ pPhase = "done"
    /\ pType = "receive"
    /\ \E i \in 1..Len(Lines(csv)) : Lines(csv)[i] = L1
    /\ \E i \in 1..Len(Lines(csv)) : Lines(csv)[i] = L3
    /\ DOMAIN summary = {"0xaaa"}
    /\ summary["0xaaa"].count = 1

-----------------------------------------------------------------------------
(* C11 *)

\* the direction test of the selected type, as the specification states it
Matches(type, line) ==
    \/ type = "send"
       /\ ToLowerCase(StripQuotes(Col(line, 4))) = TARGET_ADDRESS
    \/ type = "receive"
       /\ ToLowerCase(StripQuotes(Col(line, 5))) = TARGET_ADDRESS

\* the first of columns 7 and 8 that parses to a positive number, else 0
FirstPositive(line) ==
    LET a == ParseFloat(StripQuotes(Col(line, 7)))
        b == ParseFloat(StripQuotes(Col(line, 8)))
    IN  IF ~a.nan /\ a.n > 0 THEN a.n
        ELSE IF ~b.nan /\ b.n > 0 THEN b.n
        ELSE 0

\* C11: for a send/receive row the amount is the first of column 7 and
\* column 8 that parses to a positive number, and 0 only when neither does:
\* a row of the selected direction adds exactly that amount to the summary.
C11_FirstPositiveCandidate ==
    [][(pType # "internal" /\ lineIdx' = lineIdx + 1) =>
          (LET line == Lines(csv)[lineIdx]
           IN  (~Droppable(pType, line) /\ Matches(pType, line)) =>
                  (TotalAmount(transactionSummary') =
                      TotalAmount(transactionSummary) + FirstPositive(line)))]_vars

-----------------------------------------------------------------------------
(* C12 *)

\* the rows of a sequence of lines that fold into the key k
RowsOfKey(type, rows, k) == SelectSeq(rows, LAMBDA l : KeyOf(type, l) = k)

\* C12: after a send/receive pass the groups are the counterparties of the
\* included rows (to for send, from for receive); each group's count is the
\* number of its rows, its amount their sum, its firstDate the earliest and
\* its lastDate the latest of their timestamps; one included row gives one
\* group of count 1.
C12_GroupedByCounterparty ==
    (pPhase = "done" /\ pType # "internal") =>
        LET inc == SelectSeq(Lines(csv), LAMBDA l : Included(pType, l))
        IN  /\ DOMAIN summary = {KeyOf(pType, inc[i]) : i \in 1..Len(inc)}
            /\ \A k \in DOMAIN summary :
                  LET rows == RowsOfKey(pType, inc, k)
                  IN  /\ summary[k].to = k
                      /\ summary[k].count = Len(rows)
                      /\ summary[k].amount =
                             SumInts([i \in 1..Len(rows) |->
                                         SendAmount(CleanColumns(rows[i]))])
                      /\ \E i \in 1..Len(rows) :
                             summary[k].firstDate = TimeOf(rows[i])
                      /\ \E i \in 1..Len(rows) :
                             summary[k].lastDate = TimeOf(rows[i])
                      /\ \A i \in 1..Len(rows) :
                             /\ summary[k].firstDate.n <= TimeOf(rows[i]).n
                             /\ TimeOf(rows[i]).n <= summary[k].lastDate.n
            /\ Len(inc) = 1 =>
                  /\ Cardinality(DOMAIN summary) = 1
                  /\ \A k \in DOMAIN summary : summary[k].count = 1

\* a finished send pass with a group of two rows of different times and a
\* group of one row
C12_Witness ==
    /\ pPhase = "done"
    /\ pType = "send"
    /\ DOMAIN summary = {"0xaaa", "0xbbb"}
    /\ summary["0xaaa"].count = 2
    /\ summary["0xaaa"].amount = 25
    /\ summary["0xaaa"].firstDate.n < summary["0xaaa"].lastDate.n
    /\ summary["0xbbb"].count = 1

-----------------------------------------------------------------------------
(* C13 *)

\* C13: after an internal pass there are as many summary entries as data
\* rows that pass the column-count check, and the entry of each such row has
\* count 1 and the amount and the timestamp of that row.
C13_InternalOneEntryPerRow ==
    (pPhase = "done" /\ pType = "internal") =>
        LET rows == SelectSeq(Lines(csv), LAMBDA l : ~Droppable("internal", l))
        IN  /\ Cardinality(DOMAIN summary) = Len(rows)
            /\ \A i \in 1..Len(rows) :
                  /\ KeyOf("internal", rows[i]) \in DOMAIN summary
                  /\ LET e == summary[KeyOf("internal", rows[i])]
                     IN  /\ e.count = 1
                         /\ e.amount = InternalAmount(CleanColumns(rows[i]))
                         /\ e.firstDate = TimeOf(rows[i])
                         /\ e.lastDate = TimeOf(rows[i])

-----------------------------------------------------------------------------
(* C14 *)

\* the calendar day (UTC) of a row's timestamp
DayOf(line) == TimeOf(line).n \div 24

\* C14: the day-bucket series of a finished pass has one bucket for each
\* calendar day on which a folded row falls and no other; a bucket's amount
\* is the sum of the amounts of the rows of its day; the dates ascend
\* strictly; and the series is set only once, after the last row.
C14_OneBucketPerDay ==
    [][/\ (dailyTotals' # dailyTotals) =>
             (pPhase = "parsing" /\ pPhase' = "done"
                 /\ lineIdx > Len(Lines(csv)))
       /\ (pPhase' = "done") =>
             (LET rows == SelectSeq(Lines(csv), LAMBDA l : Folded(pType, l))
                  n == Len(dailyTotals')
              IN  /\ n = Cardinality({DayOf(rows[i]) : i \in 1..Len(rows)})
                  /\ {dailyTotals'[i].date : i \in 1..n} =
                         {DayOf(rows[i]) : i \in 1..Len(rows)}
                  /\ \A i \in 1..n :
                         dailyTotals'[i].amount =
                             SumInts([j \in 1..Len(rows) |->
                                 IF DayOf(rows[j]) = dailyTotals'[i].date
                                 THEN AmountOf(pType, rows[j]) ELSE 0])
                  /\ \A i \in 2..n :
                         dailyTotals'[i - 1].date < dailyTotals'[i].date)]_vars

\* a finished send pass with rows of 10 and 15 on one day and a row on a
\* later day: two buckets, the first of 25
C14_Witness ==
    /\ pPhase = "done"
    /\ pType = "send"
    /\ \E i \in 1..Len(Lines(csv)) : Lines(csv)[i] = L1
    /\ \E i \in 1..Len(Lines(csv)) : Lines(csv)[i] = L2
    /\ Len(dailyTotals) = 2
    /\ dailyTotals[1].amount = 25
    /\ dailyTotals[1].cumulative = 25

-----------------------------------------------------------------------------
(* C15 *)

\* C15: for toggleSort and for handleSort, from every state: two calls in a
\* row with the active field leave the field alone and bring the direction
\* back to what it was; a call with another field makes that field active
\* with direction 'desc', whatever the direction was.
C15_SortHandlers ==
    /\ \A f \in {"amount", "count", "date"} :
          LET once == toggleSortState(sortBy, sortDirection, f)
              twice == toggleSortState(once.field, once.direction, f)
          IN  /\ f = sortBy =>
                    /\ once.field = sortBy
                    /\ twice.field = sortBy
                    /\ twice.direction = sortDirection
              /\ f # sortBy =>
                    /\ once.field = f
                    /\ once.direction = "desc"
    /\ \A f \in StakesSortFields :
          LET once == handleSortState(stakesSortField, stakesSortDirection, f)
              twice == handleSortState(once.field, once.direction, f)
          IN  /\ f = stakesSortField =>
                    /\ once.field = stakesSortField
                    /\ twice.field = stakesSortField
                    /\ twice.direction = stakesSortDirection
              /\ f # stakesSortField =>
                    /\ once.field = f
                    /\ once.direction = "desc"

\* both tables have been sorted by another field than the initial one and
\* toggled to ascending
C15_Witness ==
    /\ sortBy = "date"
    /\ sortDirection = "asc"
    /\ stakesSortField = "roi"
    /\ stakesSortDirection = "asc"

-----------------------------------------------------------------------------
(* C16 *)

\* the value of an entry under the active sort key, as the specification
\* states it: amount, count, or the latest date
ActiveKey(entry) ==
    IF sortBy = "amount" THEN entry.amount
    ELSE IF sortBy = "count" THEN entry.count
    ELSE entry.lastDate.n

\* C16: the rows of the flush table are a permutation of the entries of the
\* current summary, in ascending order of the active key (amount, count or
\* lastDate) when the direction is 'asc' and in descending order when it is
\* 'desc'.
C16_SortedPermutation ==
    LET rows == sortedTransactions
        n == Len(rows)
    IN  /\ n = Cardinality(DOMAIN summary)
        /\ {rows[i] : i \in 1..n} = {summary[k] : k \in DOMAIN summary}
        /\ \A i \in 1..n : \A j \in 1..n : (i # j) => (rows[i] # rows[j])
        /\ \A i \in 1..n : \A j \in i..n :
              /\ sortDirection = "asc" =>
                    ActiveKey(rows[i]) <= ActiveKey(rows[j])
              /\ sortDirection = "desc" =>
                    ActiveKey(rows[i]) >= ActiveKey(rows[j])

\* three entries sorted by date ascending, an order that differs from the
\* order by amount
C16_Witness ==
    /\ Cardinality(DOMAIN summary) = 3
    /\ sortBy = "date"
    /\ sortDirection = "asc"
    /\ sortedTransactions[1].amount > sortedTransactions[3].amount
    /\ sortedTransactions[3].amount > sortedTransactions[2].amount

-----------------------------------------------------------------------------
(* C17 *)

\* C17: skip is never negative; skip grows only by 'next page', to
\* skip + limit with the limit of that moment, and only when the last fetch
\* returned rows; it shrinks only by 'previous page', to
\* max(0, skip - limit); 'previous' is disabled when skip is 0 and 'next'
\* when the last fetch returned no rows; a change of the limit or of the
\* address input, and the end of a query, leave skip alone.
C17_Pagination ==
    [][/\ lobbySkip >= 0
       /\ lobbySkip' >= 0
       /\ (lobbySkip' > lobbySkip) =>
             /\ lobbySkip' = lobbySkip + lobbyLimit
             /\ lobbyLimit' = lobbyLimit
             /\ lobbyData.defined
             /\ Len(lobbyData.rows) > 0
       /\ (lobbySkip' < lobbySkip) =>
             /\ lobbySkip' = (IF lobbySkip > lobbyLimit
                              THEN lobbySkip - lobbyLimit ELSE 0)
             /\ lobbyLimit' = lobbyLimit
       /\ (lobbyLimit' # lobbyLimit \/ memberAddresses' # memberAddresses
              \/ lobbyQuery.loading) =>
             (lobbySkip' = lobbySkip)
       /\ (lobbySkip = 0) => PrevDisabled
       /\ (lobbyData.defined /\ Len(lobbyData.rows) = 0) => NextDisabled]_vars

\* skip 35 was reached by a page of 10 and a page of 25; the limit is now
\* 1000, the last fetch returned no rows: 'next' is disabled and 'previous'
\* would go to 0
C17_Witness ==
    /\ lobbySkip = Tenths(35)
    /\ lobbyLimit = Tenths(1000)
    /\ "pagination" \in LobbyRendered
    /\ NextDisabled
    /\ ~PrevDisabled

-----------------------------------------------------------------------------
(* C18 *)

\* C18: the limit sent as first in the lobby query is an integer from 10
\* to 1000 in every reachable state, whatever is typed into 'Results Per
\* Page'.
C18_FirstIsIntegerInRange ==
    LET first == LobbyRequest(lobbyLimit, lobbySkip, memberAddresses).first
    IN  /\ IsInteger(first)
        /\ Tenths(10) <= first
        /\ first <= Tenths(1000)

-----------------------------------------------------------------------------
(* C19 *)

\* an entry whose normalized form has length 42 and starts with "0x"
ValidEntry(entry) ==
    Len(Normalize(entry)) = 42 /\ StartsWith0x(Normalize(entry))

\* the normalized forms of the valid entries of a text, in input order
RECURSIVE ValidInOrder(_)
ValidInOrder(text) ==
    IF text = <<>> THEN <<>>
    ELSE (IF ValidEntry(Head(text)) THEN <<Normalize(Head(text))>> ELSE <<>>)
            \o ValidInOrder(Tail(text))

\* C19: normalizing an entry twice gives what normalizing it once gives, and
\* the addresses sent with the query are the normalized forms of exactly the
\* entries whose normalized form has length 42 and starts with "0x", in
\* input order.
C19_NormalizedAndFiltered ==
    /\ \A i \in 1..Len(memberAddresses) :
          Normalize(Normalize(memberAddresses[i])) =
              Normalize(memberAddresses[i])
    /\ LobbyRequest(lobbyLimit, lobbySkip, memberAddresses).memberAddresses =
          ValidInOrder(memberAddresses)

\* a page was fetched for two entries that are addresses only once trimmed
\* and lowercased
C19_Witness ==
    /\ memberAddresses = <<TargetSpaced, Addr2Upper>>
    /\ LobbyRequest(lobbyLimit, lobbySkip, memberAddresses).memberAddresses =
          <<TARGET_ADDRESS, "0x22222222222222222222222222222222222222ab">>
    /\ lobbyData.defined
    /\ ~lobbyQuery.loading

-----------------------------------------------------------------------------
(* C20 *)

\* C20: whenever the address input holds a malformed entry, the entry is not
\* sent and a warning is emitted; with no valid entry the base query is used
\* without memberAddresses; the query with addresses is used exactly when a
\* valid entry remains; and a change of the input never puts the component
\* in its error state.
C20_MalformedWarned ==
    [][LET text == memberAddresses'
           request == LobbyRequest(lobbyLimit', lobbySkip', text)
           sent == {request.memberAddresses[i] :
                       i \in 1..Len(request.memberAddresses)}
           valid == {i \in 1..Len(text) : ValidEntry(text[i])}
       IN  (text # memberAddresses) =>
              /\ \A i \in 1..Len(text) :
                    (i \notin valid /\ text # <<"">>) =>
                        /\ Normalize(text[i]) \notin sent
                        /\ lobbyWarned'
              /\ (valid = {}) =>
                    /\ request.query = "GET_XF_LOBBY_ENTERS_BASE"
                    /\ ~request.hasMemberAddresses
              /\ (request.query = "GET_XF_LOBBY_ENTERS_WITH_ADDRESSES")
                    <=> (valid # {})
              /\ ~lobbyQuery'.error]_vars

-----------------------------------------------------------------------------
(* C21 *)

\* the rows of the fetched page, and whether a stake is displayed
StakesFetched == stakesData.rows
Displayed(stake) == \E j \in 1..Len(filteredStakes) : filteredStakes[j] = stake

\* C21: among the fetched rows that pass the search and the two date tests, a
\* row without StakeEnd is displayed under 'active' and not under 'ended', a
\* row with StakeEnd is displayed under 'ended' and not under 'active', and
\* 'all' displays both.
C21_StatusFilter ==
    stakesData.defined =>
        \A i \in 1..Len(StakesFetched) :
            LET stake == StakesFetched[i]
                ended == stake.stakeEnd.present
            IN  (SearchTest(stake) /\ StartTest(stake) /\ EndTest(stake)) =>
                    /\ statusFilter = "all" => Displayed(stake)
                    /\ statusFilter = "active" => (Displayed(stake) <=> ~ended)
                    /\ statusFilter = "ended" => (Displayed(stake) <=> ended)

\* an active and an ended stake are fetched and 'active' shows the first only
C21_Witness ==
    /\ stakesData.defined
    /\ statusFilter = "active"
    /\ StakesFetched = <<EndedStake, ActiveStake>>
    /\ filteredStakes = <<ActiveStake>>

-----------------------------------------------------------------------------
(* C22 *)

\* the expected-end timestamp of the claim
ExpectedEnd(stake) == HEX_LAUNCH_TIMESTAMP + stake.endDay * SECONDS_PER_DAY

StatusPasses(stake) ==
    \/ statusFilter = "all"
    \/ statusFilter = "active" /\ ~stake.stakeEnd.present
    \/ statusFilter = "ended" /\ stake.stakeEnd.present

AddressMatches(stake) ==
    Includes(ToLowerCase(stake.stakerAddr), ToLowerCase(searchAddress))

\* t within [from, to], inclusive at both ends
Within(t, from, to) == ~from.nan /\ ~to.nan /\ from.n <= t /\ t <= to.n

\* t not below a bound that is a date and not above one that is a date
NotOutside(t, from, to) == (from.nan \/ from.n <= t) /\ (to.nan \/ t <= to.n)

PassesAsStated(stake) ==
    /\ StatusPasses(stake)
    /\ searchAddress = "" \/ AddressMatches(stake)
    /\ Within(stake.timestamp, UnixTime(startDateRange.from),
              UnixTime(startDateRange.to))
    /\ Within(ExpectedEnd(stake), UnixTime(endDateRange.from),
              UnixTime(endDateRange.to))

PassesAmended(stake) ==
    /\ StatusPasses(stake)
    /\ Trim(searchAddress) = "" \/ AddressMatches(stake)
    /\ NotOutside(stake.timestamp, UnixTime(startDateRange.from),
                  UnixTime(startDateRange.to))
    /\ NotOutside(ExpectedEnd(stake), UnixTime(endDateRange.from),
                  UnixTime(endDateRange.to))

\* C22 as stated: filteredStakes is exactly the fetched rows, in their order,
\* that pass the status test, match the search text as a case-insensitive
\* substring of stakerAddr (an empty search matching all), start within
\* [startFrom, startTo] and are expected to end within [endFrom, endTo].
C22_FilteredAsStated ==
    stakesData.defined =>
        filteredStakes = SelectSeq(StakesFetched, PassesAsStated)

\* C22 amended: the same, where a search text that is empty or only
\* whitespace matches all, and a bound whose date input is empty excludes
\* nothing.
C22_FilteredExactly ==
    /\ stakesData.defined =>
          filteredStakes = SelectSeq(StakesFetched, PassesAmended)
    /\ ~stakesData.defined => filteredStakes = <<>>

\* a blank search and an emptied end bound exclude nothing, while the start
\* range keeps the stake that started on its last instant and drops a later
\* one
C22_Witness ==
    /\ stakesData.defined
    /\ searchAddress = "  "
    /\ endDateRange.to = ""
    /\ startDateRange.to = "2021-01-01"
    /\ StakesFetched = <<ActiveStake, EndedStake>>
    /\ filteredStakes = <<EndedStake>>

-----------------------------------------------------------------------------
(* C23 *)

\* the numeric value a sort field orders by, a missing StakeEnd component
\* counting as 0
NumericKey(stake, field) ==
    LET end == stake.stakeEnd
        has == end.present
    IN  CASE field = "start" -> Ratio(stake.timestamp, 1)
          [] field = "expEnd" -> Ratio(ExpectedEnd(stake), 1)
          [] field = "days" -> Ratio(stake.stakedDays, 1)
          [] field = "hexStaked" -> Ratio(stake.stakedHearts, 1)
          [] field = "tShares" -> Ratio(stake.stakeTShares, 1)
          [] field = "stakeEnded" ->
                Ratio(IF has THEN end.timestamp ELSE 0, 1)
          [] field = "yield" -> Ratio(IF has THEN end.payout ELSE 0, 1)
          [] field = "minted" ->
                Ratio((IF has THEN end.payout ELSE 0) + stake.stakedHearts, 1)
          [] field = "roi" ->
                IF has THEN Ratio(end.payout, stake.stakedHearts)
                ELSE Ratio(0, 1)
          [] field = "daysServed" ->
                Ratio(IF has THEN end.servedDays ELSE 0, 1)
          [] field = "earlyLate" ->
                Ratio(IF has THEN end.daysLate - end.daysEarly ELSE 0, 1)
          [] field = "penalty" -> Ratio(IF has THEN end.penalty ELSE 0, 1)

\* a <= b and a = b of two numbers, false when either is NaN
NumLeq(a, b) ==
    /\ ~IsNaN(a)
    /\ ~IsNaN(b)
    /\ \/ IsInfinity(b)
       \/ ~IsInfinity(a) /\ a.num * b.den <= b.num * a.den
NumEq(a, b) == NumLeq(a, b) /\ NumLeq(b, a)

Occurrences(seq, x) == Cardinality({i \in 1..Len(seq) : seq[i] = x})

\* the rows of seq whose key equals the key of x, in their order
SameKey(seq, x, field) ==
    SelectSeq(seq, LAMBDA y : NumEq(NumericKey(y, field), NumericKey(x, field)))

\* sorted is rows in the order of field and direction, rows of equal key
\* keeping their relative order
SortedBy(sorted, rows, field, direction) ==
    /\ \A x \in StakeRows : Occurrences(sorted, x) = Occurrences(rows, x)
    /\ \A i, j \in 1..Len(sorted) :
          i < j =>
              IF direction = "asc"
              THEN NumLeq(NumericKey(sorted[i], field),
                          NumericKey(sorted[j], field))
              ELSE NumLeq(NumericKey(sorted[j], field),
                          NumericKey(sorted[i], field))
    /\ \A i \in 1..Len(rows) :
          SameKey(sorted, rows[i], field) = SameKey(rows, rows[i], field)

\* C23: for each of the twelve sort fields and each direction, sortedStakes is
\* a permutation of filteredStakes totally ordered by the numeric value of
\* the field (a missing StakeEnd component counting as 0, stakeEnded by the
\* numeric end timestamp), rows with equal keys keeping their relative order.
C23_SortedStakes ==
    stakesData.defined =>
        SortedBy(sortedStakes, filteredStakes, stakesSortField,
                 stakesSortDirection)

-----------------------------------------------------------------------------
(* C24 *)

\* the per-row converted amounts of a page, in units of 10^15 wei
PerRowAmounts(rows) == [i \in 1..Len(rows) |-> NumberOfWei(rows[i])]

\* C24: with no data loaded Total ETH is 0; for every fetched page it is the
\* exact sum of the rows' rawAmount values, converted once, and what is shown
\* with two decimals is within half a hundredth of the sum of the per-row
\* converted amounts.
C24_TotalEth ==
    LET total == calculateTotalEth(lobbyData)
    IN  /\ ~lobbyData.defined => (~total.throws /\ total.v = 0)
        /\ lobbyData.defined =>
              LET rowSum == SumInts(PerRowAmounts(lobbyData.rows))
                  shown == 10 * TwoDecimals(total.v)
              IN  /\ ~total.throws
                  /\ total.v = rowSum
                  /\ shown - rowSum <= 5
                  /\ rowSum - shown <= 5

-----------------------------------------------------------------------------
(* C25 *)

\* C25: the query variables are first, skip, timestampFrom (the lower bound of
\* the start range), orderBy and orderDirection, and a change of the status
\* filter, of the address search, of the expected-end range or of the upper
\* bound of the start range leaves them unchanged and starts no fetch: the
\* query state and the fetched rows stay as they are.
C25_FiltersAreClientSide ==
    [][/\ DOMAIN queryVariables =
              {"first", "skip", "timestampFrom", "orderBy", "orderDirection"}
       /\ queryVariables.timestampFrom = UnixTime(startDateRange.from)
       /\ (\/ statusFilter' # statusFilter
           \/ searchAddress' # searchAddress
           \/ endDateRange' # endDateRange
           \/ startDateRange'.to # startDateRange.to) =>
              /\ queryVariables' = queryVariables
              /\ stakesQuery' = stakesQuery
              /\ stakesData' = stakesData]_vars

\* every client-side filter is set away from its initial value while the
\* fetched page is on display
C25_Witness ==
    /\ stakesData.defined
    /\ ~stakesQuery.loading
    /\ StakesFetched = <<ActiveStake, EndedStake>>
    /\ statusFilter = "ended"
    /\ searchAddress = "0xDEC9F2"
    /\ startDateRange = [from |-> "2019-12-03", to |-> "2021-01-01"]
    /\ endDateRange = [from |-> "2021-01-01", to |-> ""]
    /\ filteredStakes = <<EndedStake>>

-----------------------------------------------------------------------------
(* C26 *)

NonFinite(x) == IsNaN(x) \/ IsInfinity(x)

\* C26: the ROI the table sorts by is payout / stakedHearts for a stake with
\* StakeEnd and 0 for one without; for an ended stake of zero stakedHearts it
\* is NaN or Infinity, and that value is the sort key of the row and what its
\* ROI cell shows.
C26_RoiUnguarded ==
    stakesData.defined =>
        \A i \in 1..Len(sortedStakes) :
            LET stake == sortedStakes[i]
                key == StakeValue(stake, "roi")
                cell == RoiColumn[i]
            IN  /\ ~stake.stakeEnd.present => NumEq(key, Ratio(0, 1))
                /\ (stake.stakeEnd.present /\ stake.stakedHearts # 0) =>
                      /\ NumEq(key, Ratio(stake.stakeEnd.payout,
                                          stake.stakedHearts))
                      /\ cell.text = "percent"
                      /\ NumEq(cell.value, Ratio(100 * stake.stakeEnd.payout,
                                                 stake.stakedHearts))
                /\ (stake.stakeEnd.present /\ stake.stakedHearts = 0) =>
                      /\ NonFinite(key)
                      /\ NonFinite(cell.value)
                      /\ cell.text \in {"NaN%", "Infinity%"}
                      /\ \A j \in 1..Len(sortedStakes) :
                            LET c == CompareStakes(stake, sortedStakes[j],
                                                   "roi", "asc")
                            IN  c.nan \/ c.n >= 0

\* the table is sorted by ROI and shows both non-finite values
C26_Witness ==
    /\ stakesData.defined
    /\ stakesSortField = "roi"
    /\ sortedStakes = <<GiftStake, EmptyStake>>
    /\ RoiColumn[1].text = "Infinity%"
    /\ RoiColumn[2].text = "NaN%"

-----------------------------------------------------------------------------
(* C27 *)

\* the data rows of the run that were added to a day bucket
BucketRows == SelectSeq(Lines(csv), LAMBDA l : Folded(pType, l))

\* C27: after every successful run of the pipeline, for every transaction
\* type, the sum of amount over the summary entries equals the final
\* cumulative value of dailyTotals (0 when it is empty), and the sum of count
\* over the summary entries equals the number of rows added to the day
\* buckets.
C27_TotalsAgreeWithSeries ==
    pPhase = "done" =>
        /\ TotalAmount(summary) = FinalCumulative(dailyTotals)
        /\ TotalCount(summary) = Len(BucketRows)

-----------------------------------------------------------------------------
(* C28 *)

\* the last two fetches that settled: a success for one type, then a failure
\* for the type now selected
FailedAfterSuccess ==
    /\ Len(settled) >= 2
    /\ settled[Len(settled) - 1].result = "success"
    /\ LastOf(settled).result = "error"
    /\ LastOf(settled).type = transactionType
    /\ settled[Len(settled) - 1].type # transactionType

\* C28: the step in which a fetch settles with a failure (the fetch fails, or
\* an exception is thrown while its rows are parsed) leaves summary,
\* dailyTotals and transactionType as they were; so after a failed load for
\* the selected type that follows a successful load for another type, the
\* table and the chart hold the other type's data.
C28_FailureKeepsData ==
    [][/\ (Len(settled') = Len(settled) + 1
           /\ LastOf(settled').result = "error") =>
              /\ summary' = summary
              /\ dailyTotals' = dailyTotals
              /\ transactionType' = transactionType
       /\ FailedAfterSuccess =>
              LET shown == ResultFor(settled[Len(settled) - 1].type)
              IN  /\ summary = shown.summary
                  /\ dailyTotals = shown.dailyTotals]_vars

\* 'internal' is selected and its load has failed after the load for 'send'
\* succeeded: the rows of 'send' are still displayed
C28_Witness ==
    /\ FailedAfterSuccess
    /\ transactionType = "internal"
    /\ settled[Len(settled) - 1].type = "send"
    /\ summary = ResultFor("send").summary
    /\ summary # EmptyMap
    /\ summary # ResultFor("internal").summary

-----------------------------------------------------------------------------
(* C29 *)

\* the fetches a step issues: the requests it adds to those in flight
Issued == pending' \ pending

\* C29: the step that mounts the component issues exactly one fetch, for the
\* selected type; a step that changes transactionType issues exactly one, for
\* the new type; the step in which isInitialLoading goes from true to false
\* issues exactly one more, for the same type and file; no other step issues
\* a fetch. A sort toggle and opening or closing the type menu without a new
\* selection issue none and leave summary, dailyTotals and transactionType
\* unchanged.
C29_FetchesIssued ==
    [][/\ nextId' - nextId = Cardinality(Issued)
       /\ \A r \in Issued : r.id > nextId
       /\ IF ~mounted /\ mounted'
          THEN Issued = {Request(nextId + 1, transactionType)}
          ELSE IF transactionType' # transactionType
          THEN Issued = {Request(nextId + 1, transactionType')}
          ELSE IF isInitialLoading /\ ~isInitialLoading'
          THEN /\ Issued = {Request(nextId + 1, transactionType)}
               /\ \A r \in pending \ pending' :
                     CsvFile(r.type) = CsvFile(transactionType)
          ELSE Issued = {}
       /\ (/\ \/ sortBy' # sortBy
              \/ sortDirection' # sortDirection
              \/ isDropdownOpen' # isDropdownOpen
           /\ transactionType' = transactionType) =>
              /\ Issued = {}
              /\ pending' = pending
              /\ summary' = summary
              /\ dailyTotals' = dailyTotals]_vars

\* three fetches have been issued (mount, end of the first load, a new type)
\* and have settled; since then the table was sorted and the menu opened
C29_Witness ==
    /\ mounted
    /\ nextId = 3
    /\ Len(settled) = 3
    /\ pending = {}
    /\ transactionType = "receive"
    /\ sortDirection = "asc"
    /\ isDropdownOpen

-----------------------------------------------------------------------------
(* C30 *)

\* what the user can do inside the lobby component
LobbyUserAction ==
    \/ \E text \in LimitInputs : LobbySetLimit(text)
    \/ \E text \in AddressTexts : LobbySetAddresses(text)
    \/ handleNextPage
    \/ handlePrevPage

\* a step of the component that changes the query variables
LobbyVariablesChange ==
    /\ NextLobby
    /\ LobbyRequest(lobbyLimit', lobbySkip', memberAddresses') #
          LobbyRequest(lobbyLimit, lobbySkip, memberAddresses)

\* C30: while the lobby query is in the error state the component renders the
\* error message and nothing else, no user action of the component is
\* possible, and no step of the component changes the query variables.
C30_ErrorStateHasNoControls ==
    lobbyQuery.error =>
        /\ LobbyRendered = {"error"}
        /\ ~ENABLED LobbyUserAction
        /\ ~ENABLED LobbyVariablesChange

\* the query for the second page of 25 has failed
C30_Witness ==
    /\ lobbyQuery.error
    /\ ~lobbyData.defined
    /\ lobbyLimit = Tenths(25)
    /\ lobbySkip = Tenths(25)

-----------------------------------------------------------------------------
(* C4 *)

\* C4: the flush pipeline has no cancellation and no freshness check: the
\* displayed summary and dailyTotals are those of the response that arrived
\* last with success, whatever transactionType is selected by then; so a
\* response for type A that arrives after the response for the later
\* selection B overwrites B's data while transactionType is B.
C4_LastArrivedResponseWins ==
    Successes # <<>> =>
        /\ summary = ResultFor(LastOf(Successes).type).summary
        /\ dailyTotals = ResultFor(LastOf(Successes).type).dailyTotals

\* type B was selected after A's fetch was issued, B's response arrived
\* first and A's after it: A's data is displayed under selection B
C4_Witness ==
    /\ Len(Successes) >= 2
    /\ pending = {}
    /\ LET a == LastOf(Successes)
           b == Successes[Len(Successes) - 1]
       IN  /\ a.id < b.id
           /\ b.id = nextId
           /\ b.type = transactionType
           /\ a.type # transactionType
           /\ summary = ResultFor(a.type).summary
           /\ summary # ResultFor(b.type).summary
           /\ dailyTotals # ResultFor(b.type).dailyTotals

-----------------------------------------------------------------------------
(* C5 *)

\* C5: after a successful load for type T the summary and the day buckets
\* are built from the rows of T's file alone: the summary keys are the keys
\* of that file's rows, no key counts more rows than the file has for it,
\* and the day buckets sum to the amounts of that file's rows; nothing of an
\* earlier run is carried over.
C5_RebuiltFromThisRunOnly ==
    Successes # <<>> =>
        LET type == LastOf(Successes).type
            rows == SelectSeq(Lines(CsvFile(type)),
                              LAMBDA l : Folded(type, l))
        IN  /\ DOMAIN summary = {KeyOf(type, rows[i]) : i \in 1..Len(rows)}
            /\ \A k \in DOMAIN summary :
                  summary[k].count <=
                      Cardinality({i \in 1..Len(rows) :
                                      KeyOf(type, rows[i]) = k})
            /\ SeriesTotal(dailyTotals) =
                  SumInts([i \in 1..Len(rows) |-> AmountOf(type, rows[i])])

\* a second successful load, of another type than the first, is displayed
C5_Witness ==
    /\ Len(Successes) >= 2
    /\ LastOf(Successes).type # Successes[1].type
    /\ ResultFor(Successes[1].type).summary # EmptyMap
    /\ summary # EmptyMap
    /\ DOMAIN summary # DOMAIN ResultFor(Successes[1].type).summary

-----------------------------------------------------------------------------
(* C6 *)

\* C6: isInitialLoading is true exactly until the first fetch settles
\* (with success or with failure) and never true again, so the skeleton is
\* rendered only before that; summary and dailyTotals change only in the
\* step in which a fetch settles with success, so a refetch keeps the
\* displayed data in place until a new result replaces it.
C6_SkeletonOnlyOnFirstLoad ==
    [][/\ isInitialLoading <=> settled = <<>>
       /\ isInitialLoading' <=> settled' = <<>>
       /\ ("skeleton" \in FlushRendered') => isInitialLoading'
       /\ (~isInitialLoading) => ~isInitialLoading'
       /\ (summary' # summary \/ dailyTotals' # dailyTotals) =>
             /\ Len(settled') = Len(settled) + 1
             /\ LastOf(settled').result = "success"]_vars

\* a fetch is in flight after the first load, with data of an earlier load
\* displayed and no skeleton
C6_Witness ==
    /\ ~isInitialLoading
    /\ Len(settled) >= 2
    /\ settled[1].result = "error"
    /\ pending # {}
    /\ summary # EmptyMap
    /\ \E r \in pending : r.type # LastOf(Successes).type

-----------------------------------------------------------------------------
(* C7 *)

\* C7: in the Stakes and the Flush components every load ends in success,
\* where the new data is rendered, or in error, where an error message is
\* displayed in the page.
C7_ErrorIsDisplayed ==
    /\ (settled # <<>> /\ LastOf(settled).result = "error") =>
          "error" \in FlushRendered
    /\ (settled # <<>> /\ LastOf(settled).result = "success") =>
          /\ "table" \in FlushRendered
          /\ summary = ResultFor(LastOf(settled).type).summary
    /\ stakesQuery.error => "error" \in StakesRendered
    /\ (~stakesQuery.loading /\ ~stakesQuery.error) =>
          "table" \in StakesRendered

-----------------------------------------------------------------------------
(* C8 *)

\* C8: no failure path is fatal: a failed fetch, a CSV row with an
\* unparseable timestamp or amount, a lobby record whose rawAmount is not an
\* integer string, or malformed address input never crash a component (no
\* uncaught exception); fewer rows or an inline message are shown instead.
C8_NothingIsFatal ==
    /\ ~lobbyCrashed
    /\ lobbyQuery.error => "error" \in LobbyRendered

====
